---- MODULE Spec2Model ----
(***************************************************************************)
(* Model of the shared filter state of the analytics dashboard             *)
(* (FiltersProvider in context/FiltersContext): the FiltersState record,   *)
(* its eight setters, triggerRefresh, resetFilters, the persist effect     *)
(* writing localStorage and the auto-refresh effect owning a               *)
(* window.setInterval timer.                                               *)
(*                                                                         *)
(* One action is one event-loop task: the handler's setFilters calls, the  *)
(* render that applies them and the effects of that render.                *)
(***************************************************************************)
EXTENDS Integers, Sequences, FiniteSets, TLC

(***************************************************************************)
(* Bounds of the model.                                                    *)
(***************************************************************************)
\* longest step list handed to validateSteps, longest response
MaxLen == 3
\* largest users count of a response
MaxCount == 2
\* most steps the step list of the funnel page grows to
MaxSteps == 5
\* most requests the collaborator has still to answer
MaxInflight == 2
\* largest value the clock Date.now() reaches
MaxClock == 3
\* number of timer ids window.setInterval can hand out
MaxTimerIds == 2
\* most setter calls one handler makes before React renders
MaxBatch == 2

(***************************************************************************)
(* Values.                                                                 *)
(***************************************************************************)
\* JavaScript null in the projectKey field; no project key string equals it
Null == "<null>"
\* inputs of the string setters
StrArgs == {"", "a"}
\* inputs of setProjectKey: string | null
ProjectKeyArgs == {Null, "", "p1"}
\* type RefreshInterval = 30 | 60
RefreshInterval == {30, 60}
\* "no timer id": the auto-refresh effect returned no cleanup
NoTimer == 0
TimerIds == 1..MaxTimerIds

\* JavaScript truthiness of a string | null value
Truthy(v) == v \notin {Null, ""}

Fields ==
  {"projectKey", "from", "to", "eventName", "userId", "anonymousId",
   "autoRefreshEnabled", "autoRefreshInterval", "refreshToken"}

defaultFilters ==
  [projectKey |-> Null, from |-> "", to |-> "", eventName |-> "",
   userId |-> "", anonymousId |-> "", autoRefreshEnabled |-> FALSE,
   autoRefreshInterval |-> 30, refreshToken |-> 0]

\* object spread { ...base, ...over }
Spread(base, over) ==
  [k \in (DOMAIN base) \cup (DOMAIN over) |->
     IF k \in DOMAIN over THEN over[k] ELSE base[k]]

\* object rest: const { refreshToken: _ignore, ...toSave } = filters
WithoutKey(obj, key) == [k \in (DOMAIN obj) \ {key} |-> obj[k]]

(***************************************************************************)
(* JSON and localStorage.  A stored item is                                *)
(*   [kind |-> "absent"]            getItem returns null                   *)
(*   [kind |-> "empty"]             the empty string                       *)
(*   [kind |-> "garbage"]           a string JSON.parse rejects            *)
(*   [kind |-> "json", val |-> v]   the JSON text of the value v           *)
(* and a JSON value is [t |-> "null"], [t |-> "num", n |-> i] or           *)
(* [t |-> "obj", o |-> record].                                            *)
(***************************************************************************)
JNull == [t |-> "null"]
JNum(i) == [t |-> "num", n |-> i]
JObj(rec) == [t |-> "obj", o |-> rec]

\* JSON.stringify of an object
JsonStringify(rec) == [kind |-> "json", val |-> JObj(rec)]

\* JSON.parse: throws a SyntaxError on the empty string and on garbage
JsonParse(item) ==
  IF item.kind = "json" THEN [threw |-> FALSE, val |-> item.val]
  ELSE [threw |-> TRUE, val |-> JNull]

\* !saved for a parsed JSON value
Falsy(v) == v.t = "null" \/ (v.t = "num" /\ v.n = 0)

\* the object with no properties
EmptyObject == [k \in {} |-> 0]

\* the own enumerable properties { ...saved } copies (a number has none)
OwnProps(v) == IF v.t = "obj" THEN v.o ELSE EmptyObject

\* safeParseJson without its try/catch: the SyntaxError leaves the function
safeParseJsonNoCatch(value) ==
  IF value.kind \in {"absent", "empty"} THEN [threw |-> FALSE, val |-> JNull]
  ELSE JsonParse(value)

\* function safeParseJson<T>(value: string | null): T | null
\* result: [threw |-> an exception left the function, val |-> returned value]
safeParseJson(value) ==
  IF value.kind \in {"absent", "empty"} THEN [threw |-> FALSE, val |-> JNull]
  ELSE LET parsed == JsonParse(value)
       IN  IF parsed.threw THEN [threw |-> FALSE, val |-> JNull]
           ELSE [threw |-> FALSE, val |-> parsed.val]

\* the initializer without its trailing refreshToken: 0
InitialFiltersKeepsToken(item) ==
  LET saved == safeParseJson(item)
  IN  IF saved.threw THEN [threw |-> TRUE, val |-> defaultFilters]
      ELSE IF Falsy(saved.val) THEN [threw |-> FALSE, val |-> defaultFilters]
      ELSE [threw |-> FALSE,
            val |-> Spread(defaultFilters, OwnProps(saved.val))]

\* the useState initializer of FiltersProvider, applied to
\* localStorage.getItem(STORAGE_KEY)
InitialFilters(item) ==
  LET saved == safeParseJson(item)
  IN  IF saved.threw THEN [threw |-> TRUE, val |-> defaultFilters]
      ELSE IF Falsy(saved.val) THEN [threw |-> FALSE, val |-> defaultFilters]
      ELSE [threw |-> FALSE,
            val |-> Spread(Spread(defaultFilters, OwnProps(saved.val)),
                           [refreshToken |-> 0])]

\* the persist effect writing the whole state, refreshToken included
PersistEffectKeepsToken(f) == JsonStringify(f)

\* persist effect: the item written under STORAGE_KEY for the state f
PersistEffect(f) == JsonStringify(WithoutKey(f, "refreshToken"))

(***************************************************************************)
(* The state updaters handed to setFilters.                                *)
(***************************************************************************)
setProjectKey(p, projectKey) == Spread(p, [projectKey |-> projectKey])
setFrom(p, value) == Spread(p, [from |-> value])
setTo(p, value) == Spread(p, [to |-> value])
setEventName(p, value) == Spread(p, [eventName |-> value])
setUserId(p, value) == Spread(p, [userId |-> value])
setAnonymousId(p, value) == Spread(p, [anonymousId |-> value])
setAutoRefreshEnabled(p, enabled) == Spread(p, [autoRefreshEnabled |-> enabled])
setAutoRefreshInterval(p, interval) ==
  Spread(p, [autoRefreshInterval |-> interval])
\* triggerRefresh doing nothing while no project is selected
triggerRefreshGuarded(p, dateNow) ==
  IF Truthy(p.projectKey) THEN Spread(p, [refreshToken |-> dateNow]) ELSE p

\* triggerRefresh: (p) => ({ ...p, refreshToken: Date.now() })
triggerRefresh(p, dateNow) == Spread(p, [refreshToken |-> dateNow])
\* resetFilters: setFilters({ ...defaultFilters, refreshToken: Date.now() })
resetFilters(p, dateNow) == Spread(defaultFilters, [refreshToken |-> dateNow])
\* the interval callback: (prev) => ({ ...prev, refreshToken: Date.now() })
intervalTick(prev, dateNow) == Spread(prev, [refreshToken |-> dateNow])

\* a setter call is <<name, argument>>
SetterCalls ==
       {<<"setProjectKey", v>> : v \in ProjectKeyArgs}
  \cup {<<"setFrom", v>> : v \in StrArgs}
  \cup {<<"setTo", v>> : v \in StrArgs}
  \cup {<<"setEventName", v>> : v \in StrArgs}
  \cup {<<"setUserId", v>> : v \in StrArgs}
  \cup {<<"setAnonymousId", v>> : v \in StrArgs}
  \cup {<<"setAutoRefreshEnabled", v>> : v \in BOOLEAN}
  \cup {<<"setAutoRefreshInterval", v>> : v \in RefreshInterval}

\* the field a setter writes
FieldOf(name) ==
  CASE name = "setProjectKey" -> "projectKey"
    [] name = "setFrom" -> "from"
    [] name = "setTo" -> "to"
    [] name = "setEventName" -> "eventName"
    [] name = "setUserId" -> "userId"
    [] name = "setAnonymousId" -> "anonymousId"
    [] name = "setAutoRefreshEnabled" -> "autoRefreshEnabled"
    [] name = "setAutoRefreshInterval" -> "autoRefreshInterval"

\* the updater one setter call queues
ApplyCall(p, call) ==
  CASE call[1] = "setProjectKey" -> setProjectKey(p, call[2])
    [] call[1] = "setFrom" -> setFrom(p, call[2])
    [] call[1] = "setTo" -> setTo(p, call[2])
    [] call[1] = "setEventName" -> setEventName(p, call[2])
    [] call[1] = "setUserId" -> setUserId(p, call[2])
    [] call[1] = "setAnonymousId" -> setAnonymousId(p, call[2])
    [] call[1] = "setAutoRefreshEnabled" -> setAutoRefreshEnabled(p, call[2])
    [] call[1] = "setAutoRefreshInterval" -> setAutoRefreshInterval(p, call[2])

\* setters that spread the state captured at render instead of the queued
\* state: of several calls in one handler only the last survives
ApplyCallsStale(p, calls) ==
  IF calls = <<>> THEN p ELSE ApplyCall(p, calls[Len(calls)])

\* React applies the queued updaters in call order, each to the result of
\* the one before
RECURSIVE ApplyCalls(_, _)
ApplyCalls(p, calls) ==
  IF calls = <<>> THEN p
  ELSE ApplyCalls(ApplyCall(p, Head(calls)), Tail(calls))

(***************************************************************************)
(* The auto-refresh effect.                                                *)
(***************************************************************************)
\* a cleanup that clears another id than the one setInterval returned
clearIntervalOtherId(live, id) == {t \in live : t.id = id}

\* window.clearInterval(id)
clearInterval(live, id) == {t \in live : t.id # id}

\* an effect that returns no cleanup
EffectCleanupMissing(live, id) == live

\* the cleanup the previous run of the effect returned, if it returned one
EffectCleanup(live, id) == IF id = NoTimer THEN live ELSE clearInterval(live, id)

\* an effect that depends on the whole state: [filters]
AutoRefreshDepsAllFilters(f) == f

\* the effect's dependency array [autoRefreshEnabled, autoRefreshInterval,
\* projectKey], compared by React with Object.is
AutoRefreshDeps(f) ==
  <<f.autoRefreshEnabled, f.autoRefreshInterval, f.projectKey>>

\* an effect that tests projectKey against null only
AutoRefreshArmedNullOnly(f) == f.autoRefreshEnabled /\ f.projectKey # Null

\* the two early returns of the effect
AutoRefreshArmed(f) == f.autoRefreshEnabled /\ Truthy(f.projectKey)

\* window.setInterval(callback, ms): a timer under an id no live timer has
setInterval(live, ms) ==
  {<<live \cup {[id |-> i, ms |-> ms]}, i>> :
     i \in TimerIds \ {t.id : t \in live}}

\* one run of the effect body with state f while the timers in live run:
\* the possible <<live timers afterwards, id held by the returned cleanup>>
AutoRefreshEffect(f, live) ==
  IF ~AutoRefreshArmed(f) THEN {<<live, NoTimer>>}
  ELSE setInterval(live, f.autoRefreshInterval * 1000)

\* the items another writer of the origin's localStorage may leave under
\* STORAGE_KEY
ForeignItems ==
  {[kind |-> "absent"], [kind |-> "empty"], [kind |-> "garbage"],
   [kind |-> "json", val |-> JNull],
   [kind |-> "json", val |-> JNum(0)],
   [kind |-> "json", val |-> JNum(7)],
   [kind |-> "json", val |-> JObj(EmptyObject)],
   [kind |-> "json",
    val |-> JObj([projectKey |-> "p1", autoRefreshEnabled |-> TRUE])],
   [kind |-> "json", val |-> JObj([from |-> "a", refreshToken |-> 2])],
   [kind |-> "json", val |-> JObj([autoRefreshInterval |-> 5])]}

(***************************************************************************)
(* The funnel page (pages/FunnelPage): the ordered step list, its          *)
(* validation, and the metrics derived from the collaborator's counts.     *)
(* A step list is a sequence of strings.  A validation result or a step    *)
(* error is [error |-> message] with the message of the source, Null for   *)
(* "no error"; the duplicate message carries the names it joins.           *)
(***************************************************************************)
\* String.prototype.trim on the strings of the model: every string that
\* is not listed here has no white space at either end
trim(s) ==
  CASE s \in {" ", "  "} -> ""
    [] s \in {" a", "a "} -> "a"
    [] s = " login " -> "login"
    [] s = " app_open " -> "app_open"
    [] s = " A " -> "A"
    [] OTHER -> s

\* const DEFAULT_FUNNEL_STEPS
DEFAULT_FUNNEL_STEPS ==
  <<"app_open", "screen_view", "login_success", "purchase_success">>

NoError == [error |-> Null]
TooFewSteps == [error |-> "At least 2 steps are required"]
BlankStep == [error |-> "Steps cannot be empty or whitespace only"]
DuplicateStep(duplicates) ==
  [error |-> "Duplicate steps found", names |-> duplicates]

\* array.indexOf(x): the first position holding x, counted from 1; 0 when
\* there is none (JavaScript counts from 0 and answers -1)
indexOf(array, x) ==
  IF \E i \in 1..Len(array) : array[i] = x
  THEN CHOOSE i \in 1..Len(array) :
         array[i] = x /\ \A j \in 1..(i - 1) : array[j] # x
  ELSE 0

\* array.filter((_, i) => keep has i), reading the array from position i
RECURSIVE FilterAt(_, _, _)
FilterAt(array, keep, i) ==
  IF i > Len(array) THEN <<>>
  ELSE (IF i \in keep THEN <<array[i]>> ELSE <<>>)
         \o FilterAt(array, keep, i + 1)

\* stepsToValidate.map(s => s.trim())
MapTrim(array) == [i \in 1..Len(array) |-> trim(array[i])]

\* validateSteps that looks for duplicates first and for a short list last
validateStepsDuplicatesFirst(stepsToValidate) ==
  LET trimmedSteps ==
        SelectSeq(MapTrim(stepsToValidate), LAMBDA s : s # "")
      duplicates ==
        FilterAt(trimmedSteps,
                 {i \in 1..Len(trimmedSteps) :
                    indexOf(trimmedSteps, trimmedSteps[i]) # i}, 1)
  IN  IF Len(duplicates) > 0 THEN DuplicateStep(duplicates)
      ELSE IF Len(trimmedSteps) # Len(stepsToValidate) THEN BlankStep
      ELSE IF Len(stepsToValidate) < 2 THEN TooFewSteps
      ELSE NoError

\* const validateSteps = (stepsToValidate: string[]): string | null
validateSteps(stepsToValidate) ==
  LET trimmedSteps ==
        SelectSeq(MapTrim(stepsToValidate), LAMBDA s : s # "")
      duplicates ==
        FilterAt(trimmedSteps,
                 {i \in 1..Len(trimmedSteps) :
                    indexOf(trimmedSteps, trimmedSteps[i]) # i}, 1)
  IN  IF Len(stepsToValidate) < 2 THEN TooFewSteps
      ELSE IF Len(trimmedSteps) # Len(stepsToValidate) THEN BlankStep
      ELSE IF Len(duplicates) > 0 THEN DuplicateStep(duplicates)
      ELSE NoError

(***************************************************************************)
(* Percentages.  A JavaScript number that is a quotient of counts is the   *)
(* fraction [n, d] in lowest terms with d > 0: the arithmetic is that of   *)
(* the rationals, the rounding of the last bit of a double is left out.    *)
(***************************************************************************)
RECURSIVE Gcd(_, _)
Gcd(a, b) == IF b = 0 THEN a ELSE Gcd(b, a % b)

Abs(i) == IF i < 0 THEN 0 - i ELSE i

\* the number n / d, d # 0
Frac(n, d) ==
  LET g == Gcd(Abs(n), Abs(d))
      sign == IF d < 0 THEN 0 - 1 ELSE 1
  IN  [n |-> sign * (n \div g), d |-> sign * (d \div g)]

\* the number x * k
Times(x, k) == Frac(x.n * k, x.d)

\* the number 0 the three functions return on a zero denominator
Zero == Frac(0, 1)

\* the value undefined of an optional field
Undefined == [undefined |-> TRUE]

\* calculateDropOff without the guard of a zero previous count: the
\* division NaN or Infinity of JavaScript
calculateDropOffUnguarded(current, previous) ==
  IF previous = 0 THEN [nan |-> TRUE]
  ELSE Times(Frac(previous - current, previous), 100)

\* function calculateDropOff(current: number, previous: number): number
calculateDropOff(current, previous) ==
  IF previous = 0 THEN Zero
  ELSE Times(Frac(previous - current, previous), 100)

\* function calculateConversionRate(current: number, previous: number)
calculateConversionRate(current, previous) ==
  IF previous = 0 THEN Zero
  ELSE Times(Frac(current, previous), 100)

\* function calculateBarWidth(current: number, first: number): number
calculateBarWidth(current, first) ==
  IF first = 0 THEN Zero
  ELSE Times(Frac(current, first), 100)

\* processedSteps that keeps the first entry of every event name only
ProcessedStepsDistinct(responseSteps) ==
  LET kept == FilterAt(responseSteps,
                       {i \in 1..Len(responseSteps) :
                          \A j \in 1..(i - 1) :
                            responseSteps[j].eventName
                              # responseSteps[i].eventName}, 1)
  IN  [index \in 1..Len(kept) |->
         LET step == kept[index]
             previousUsers == IF index > 1 THEN kept[index - 1].users
                              ELSE step.users
             firstUsers == kept[1].users
         IN  [eventName |-> step.eventName,
              users |-> step.users,
              dropOff |-> IF index > 1
                          THEN calculateDropOff(step.users, previousUsers)
                          ELSE Undefined,
              conversionRate |-> IF index > 1
                                 THEN calculateConversionRate(step.users,
                                                              previousUsers)
                                 ELSE Undefined,
              barWidth |-> calculateBarWidth(step.users, firstUsers)]]

\* processedSteps = response.steps.map((step, index) => ...); positions
\* count from 1, so the source's index > 0 reads index > 1
ProcessedSteps(responseSteps) ==
  [index \in 1..Len(responseSteps) |->
     LET step == responseSteps[index]
         previousUsers == IF index > 1 THEN responseSteps[index - 1].users
                          ELSE step.users
         firstUsers == responseSteps[1].users
     IN  [eventName |-> step.eventName,
          users |-> step.users,
          dropOff |-> IF index > 1
                      THEN calculateDropOff(step.users, previousUsers)
                      ELSE Undefined,
          conversionRate |-> IF index > 1
                             THEN calculateConversionRate(step.users,
                                                          previousUsers)
                             ELSE Undefined,
          barWidth |-> calculateBarWidth(step.users, firstUsers)]]

(***************************************************************************)
(* Presets.  The preset record of project key k is the localStorage item   *)
(* under getPresetsStorageKey(k); a store maps every key to its item.  A   *)
(* JSON array is [t |-> "arr", a |-> sequence]; a preset is                *)
(* [presetName, steps, createdAt].                                         *)
(***************************************************************************)
JArr(a) == [t |-> "arr", a |-> a]

\* JSON.stringify of an array
JsonStringifyArray(a) == [kind |-> "json", val |-> JArr(a)]

\* presets.filter(p => p.presetName !== presetName)
WithoutName(presets, presetName) ==
  SelectSeq(presets, LAMBDA p : p.presetName # presetName)

\* loadPresets without its guard on the project key
loadPresetsUnguarded(store, projectKey) ==
  LET stored == store[projectKey]
  IN  IF stored.kind \in {"absent", "empty"}
      THEN [threw |-> FALSE, val |-> JArr(<<>>)]
      ELSE LET parsed == JsonParse(stored)
           IN  IF parsed.threw THEN [threw |-> FALSE, val |-> JArr(<<>>)]
               ELSE [threw |-> FALSE, val |-> parsed.val]

\* function loadPresets(projectKey: string): FunnelPreset[]
\* result: [threw, val]; val is whatever JSON.parse returned
loadPresets(store, projectKey) ==
  IF ~Truthy(projectKey) THEN [threw |-> FALSE, val |-> JArr(<<>>)]
  ELSE LET stored == store[projectKey]
       IN  IF stored.kind \in {"absent", "empty"}
           THEN [threw |-> FALSE, val |-> JArr(<<>>)]
           ELSE LET parsed == JsonParse(stored)
                IN  IF parsed.threw
                    THEN [threw |-> FALSE, val |-> JArr(<<>>)]
                    ELSE [threw |-> FALSE, val |-> parsed.val]

\* savePreset that appends without filtering the name out first
savePresetAppendOnly(store, projectKey, preset) ==
  IF ~Truthy(projectKey) THEN [threw |-> FALSE, store |-> store]
  ELSE LET presets == loadPresets(store, projectKey).val
       IN  IF presets.t # "arr" THEN [threw |-> FALSE, store |-> store]
           ELSE [threw |-> FALSE,
                 store |-> [store EXCEPT ![projectKey] =
                   JsonStringifyArray(Append(presets.a, preset))]]

\* function savePreset(projectKey: string, preset: FunnelPreset): void
\* result: [threw, store]; the TypeError of presets.filter on a value that
\* is no array is caught and nothing is written
savePreset(store, projectKey, preset) ==
  IF ~Truthy(projectKey) THEN [threw |-> FALSE, store |-> store]
  ELSE LET presets == loadPresets(store, projectKey).val
       IN  IF presets.t # "arr" THEN [threw |-> FALSE, store |-> store]
           ELSE [threw |-> FALSE,
                 store |-> [store EXCEPT ![projectKey] =
                   JsonStringifyArray(
                     Append(WithoutName(presets.a, preset.presetName),
                            preset))]]

\* function deletePreset(projectKey: string, presetName: string): void
deletePreset(store, projectKey, presetName) ==
  IF ~Truthy(projectKey) THEN [threw |-> FALSE, store |-> store]
  ELSE LET presets == loadPresets(store, projectKey).val
       IN  IF presets.t # "arr" THEN [threw |-> FALSE, store |-> store]
           ELSE [threw |-> FALSE,
                 store |-> [store EXCEPT ![projectKey] =
                   JsonStringifyArray(WithoutName(presets.a, presetName))]]

\* a preset of another writer
ForeignPreset(n, st) == [presetName |-> n, steps |-> st, createdAt |-> 0]

\* the store with no preset record
EmptyStore == [k \in ProjectKeyArgs |-> [kind |-> "absent"]]

(***************************************************************************)
(* The handlers of the funnel page.  The component state is the record p   *)
(* [route, steps, stepsRef, stepError, presets, mode, processName, data,   *)
(* loading, error]; a handler is the record of the fields its set calls    *)
(* write.  stepsRef is the position in presets of the preset whose steps   *)
(* array the steps state is, 0 when it is an array of its own: React       *)
(* compares a dependency by identity.                                      *)
(***************************************************************************)
\* [a[i], a[j]] = [a[j], a[i]]
Swap(array, i, j) == [array EXCEPT ![i] = array[j], ![j] = array[i]]

\* array.includes(x)
includes(array, x) == \E i \in 1..Len(array) : array[i] = x

\* handleAddStep that appends the name as typed
handleAddStepUntrimmed(p, stepName) ==
  LET trimmed == trim(stepName)
  IN  IF trimmed = ""
      THEN [stepError |-> [error |-> "Step name cannot be empty"]]
      ELSE IF includes(p.steps, trimmed)
      THEN [stepError |-> [error |-> "Step already exists",
                           names |-> <<trimmed>>]]
      ELSE LET newSteps == Append(p.steps, stepName)
               validationError == validateSteps(newSteps)
           IN  IF validationError # NoError
               THEN [stepError |-> validationError]
               ELSE [steps |-> newSteps, stepsRef |-> 0,
                     stepError |-> NoError]

\* const handleAddStep = (stepName?: string); stepName is the suggestion
\* clicked or, without one, the text of the input (stepName || newStepInput)
handleAddStep(p, stepName) ==
  LET trimmed == trim(stepName)
  IN  IF trimmed = ""
      THEN [stepError |-> [error |-> "Step name cannot be empty"]]
      ELSE IF includes(p.steps, trimmed)
      THEN [stepError |-> [error |-> "Step already exists",
                           names |-> <<trimmed>>]]
      ELSE LET newSteps == Append(p.steps, trimmed)
               validationError == validateSteps(newSteps)
           IN  IF validationError # NoError
               THEN [stepError |-> validationError]
               ELSE [steps |-> newSteps, stepsRef |-> 0,
                     stepError |-> NoError]

\* handleRemoveStep that commits the shorter list without validating it
handleRemoveStepUnvalidated(p, index) ==
  [steps |-> FilterAt(p.steps, (1..Len(p.steps)) \ {index}, 1),
   stepsRef |-> 0, stepError |-> NoError]

\* const handleRemoveStep = (index: number); positions count from 1
handleRemoveStep(p, index) ==
  LET newSteps == FilterAt(p.steps, (1..Len(p.steps)) \ {index}, 1)
      validationError == validateSteps(newSteps)
  IN  IF validationError # NoError THEN [stepError |-> validationError]
      ELSE [steps |-> newSteps, stepsRef |-> 0, stepError |-> NoError]

\* const handleMoveUp = (index: number); the source's index === 0
handleMoveUp(p, index) ==
  IF index = 1 THEN EmptyObject
  ELSE [steps |-> Swap(p.steps, index - 1, index), stepsRef |-> 0]

\* handleMoveDown that copies the step down without moving the other up
handleMoveDownOverwrites(p, index) ==
  IF index = Len(p.steps) THEN EmptyObject
  ELSE [steps |-> [p.steps EXCEPT ![index + 1] = p.steps[index]],
        stepsRef |-> 0]

\* const handleMoveDown = (index: number)
handleMoveDown(p, index) ==
  IF index = Len(p.steps) THEN EmptyObject
  ELSE [steps |-> Swap(p.steps, index, index + 1), stepsRef |-> 0]

\* const handleLoadPreset = (preset: FunnelPreset), the preset at position
\* index of the presets state
handleLoadPreset(p, index) ==
  LET preset == p.presets.a[index]
  IN  IF Len(preset.steps) >= 2
      THEN [steps |-> preset.steps, stepsRef |-> index,
            stepError |-> NoError]
      ELSE EmptyObject

\* const handleSavePreset = () with the text presetNameInput, at the time
\* dateNow: [writes, store]
handleSavePreset(f, p, store, presetNameInput, dateNow) ==
  LET trimmed == trim(presetNameInput)
      preset == [presetName |-> trimmed, steps |-> p.steps,
                 createdAt |-> dateNow]
      saved == savePreset(store, f.projectKey, preset).store
  IN  IF ~Truthy(f.projectKey) THEN [writes |-> EmptyObject, store |-> store]
      ELSE IF trimmed = ""
      THEN [writes |-> [stepError |->
                          [error |-> "Preset name cannot be empty"]],
            store |-> store]
      ELSE IF Len(p.steps) < 2
      THEN [writes |-> [stepError |-> [error |->
                "At least 2 steps are required to save a preset"]],
            store |-> store]
      ELSE [writes |-> [presets |-> loadPresets(saved, f.projectKey).val,
                        stepsRef |-> 0, stepError |-> NoError],
            store |-> saved]

\* const handleDeletePreset = (presetName: string), confirm() answered
\* yes: [writes, store]
handleDeletePreset(f, p, store, presetName) ==
  LET deleted == deletePreset(store, f.projectKey, presetName).store
  IN  IF ~Truthy(f.projectKey) THEN [writes |-> EmptyObject, store |-> store]
      ELSE [writes |-> [presets |-> loadPresets(deleted, f.projectKey).val,
                        stepsRef |-> 0],
            store |-> deleted]

(***************************************************************************)
(* The effects of the report pages.  An effect is [writes, requests]: the  *)
(* fields its set calls write before its first await and the requests it   *)
(* hands to the API client.  A request is [url, params].                   *)
(***************************************************************************)
\* if (filters.from && filters.from.trim()) params.from = filters.from,
\* and the same for to
DateRange(f) ==
  Spread(IF f.from # "" /\ trim(f.from) # "" THEN [from |-> f.from]
         ELSE EmptyObject,
         IF f.to # "" /\ trim(f.to) # "" THEN [to |-> f.to]
         ELSE EmptyObject)

MissingProcessName ==
  [error |-> "Process name is required when using Process Funnel mode"]

InvalidFunnelSteps(validationError) ==
  [error |-> "Invalid funnel steps", cause |-> validationError]

\* loadFunnel that never looks at the process name
loadFunnelAnyProcess(f, p) ==
  LET validationError == validateSteps(p.steps)
      body == Spread(Spread([projectKey |-> f.projectKey,
                             steps |-> p.steps, mode |-> p.mode],
                            DateRange(f)),
                     IF p.mode = "PROCESS" /\ trim(p.processName) # ""
                     THEN [processName |-> trim(p.processName)]
                     ELSE EmptyObject)
  IN  IF ~Truthy(f.projectKey)
      THEN [writes |-> [data |-> <<>>, error |-> NoError],
            requests |-> <<>>]
      ELSE IF validationError # NoError
      THEN [writes |-> [error |-> InvalidFunnelSteps(validationError),
                        data |-> <<>>],
            requests |-> <<>>]
      ELSE [writes |-> [loading |-> TRUE, error |-> NoError,
                        stepError |-> NoError],
            requests |-> <<[url |-> "/v1/reports/funnel",
                            params |-> body]>>]

\* const loadFunnel = async () up to its await
loadFunnel(f, p) ==
  LET validationError == validateSteps(p.steps)
      body == Spread(Spread([projectKey |-> f.projectKey,
                             steps |-> p.steps, mode |-> p.mode],
                            DateRange(f)),
                     IF p.mode = "PROCESS" /\ trim(p.processName) # ""
                     THEN [processName |-> trim(p.processName)]
                     ELSE EmptyObject)
  IN  IF ~Truthy(f.projectKey)
      THEN [writes |-> [data |-> <<>>, error |-> NoError],
            requests |-> <<>>]
      ELSE IF validationError # NoError
      THEN [writes |-> [error |-> InvalidFunnelSteps(validationError),
                        data |-> <<>>],
            requests |-> <<>>]
      ELSE IF p.mode = "PROCESS" /\ trim(p.processName) = ""
      THEN [writes |-> [error |-> MissingProcessName, data |-> <<>>],
            requests |-> <<>>]
      ELSE [writes |-> [loading |-> TRUE, error |-> NoError,
                        stepError |-> NoError],
            requests |-> <<[url |-> "/v1/reports/funnel",
                            params |-> body]>>]

\* array.find(p => p.presetName === "Default"): its position, 0 for none
FindDefault(presets) ==
  IF \E i \in 1..Len(presets) : presets[i].presetName = "Default"
  THEN CHOOSE i \in 1..Len(presets) :
         /\ presets[i].presetName = "Default"
         /\ \A j \in 1..(i - 1) : presets[j].presetName # "Default"
  ELSE 0

\* the presets effect without its test of the length of the Default preset
PresetsEffectAnyLength(f, store) ==
  LET loadedPresets == loadPresets(store, f.projectKey).val
      i == FindDefault(loadedPresets.a)
  IN  IF ~Truthy(f.projectKey)
      THEN [threw |-> FALSE,
            writes |-> [presets |-> JArr(<<>>), stepsRef |-> 0]]
      ELSE IF loadedPresets.t # "arr"
      THEN [threw |-> TRUE, writes |-> [presets |-> loadedPresets]]
      ELSE IF i # 0
      THEN [threw |-> FALSE,
            writes |-> [presets |-> loadedPresets,
                        steps |-> loadedPresets.a[i].steps, stepsRef |-> i]]
      ELSE [threw |-> FALSE,
            writes |-> [presets |-> loadedPresets, stepsRef |-> 0]]

\* the effect of the funnel page on [filters.projectKey]: [threw, writes];
\* loadedPresets.find raises a TypeError on a value that is no array
PresetsEffect(f, store) ==
  LET loadedPresets == loadPresets(store, f.projectKey).val
      i == FindDefault(loadedPresets.a)
  IN  IF ~Truthy(f.projectKey)
      THEN [threw |-> FALSE,
            writes |-> [presets |-> JArr(<<>>), stepsRef |-> 0]]
      ELSE IF loadedPresets.t # "arr"
      THEN [threw |-> TRUE, writes |-> [presets |-> loadedPresets]]
      ELSE IF i # 0 /\ Len(loadedPresets.a[i].steps) >= 2
      THEN [threw |-> FALSE,
            writes |-> [presets |-> loadedPresets,
                        steps |-> loadedPresets.a[i].steps, stepsRef |-> i]]
      ELSE [threw |-> FALSE,
            writes |-> [presets |-> loadedPresets, stepsRef |-> 0]]

\* the effect of TimeSeriesPage on its dependencies
TimeSeriesEffect(f) ==
  IF ~Truthy(f.projectKey)
  THEN [writes |-> [data |-> <<>>, error |-> NoError], requests |-> <<>>]
  ELSE [writes |-> [loading |-> TRUE, error |-> NoError],
        requests |-> <<[url |-> "/v1/reports/events-timeseries",
                        params |-> Spread([projectKey |-> f.projectKey,
                                           interval |-> "day"],
                                          DateRange(f))]>>]

\* the effect of ConversionPage on its dependencies
ConversionEffect(f, p) ==
  IF ~Truthy(f.projectKey)
  THEN [writes |-> [data |-> JNull, error |-> NoError], requests |-> <<>>]
  ELSE [writes |-> [loading |-> TRUE, error |-> NoError],
        requests |-> <<[url |-> "/v1/reports/conversion",
                        params |-> Spread([projectKey |-> f.projectKey,
                                           eventName |-> p.conversionEvent],
                                          DateRange(f))]>>]

\* the two groups of fetches loadData of OverviewPage awaits with
\* Promise.all
PrimaryGroup == {"/v1/reports/overview", "/v1/reports/conversion"}

SecondaryGroup ==
  {"/v1/reports/button-clicks", "/v1/reports/view-items",
   "/v1/reports/screen-views-by-hour"}

\* the requests of a group for the params of a load
GroupRequests(group, params) ==
  CASE group = "primary" ->
         <<[url |-> "/v1/reports/overview", params |-> params],
           [url |-> "/v1/reports/conversion",
            params |-> Spread(params, [eventName |-> "purchase_success"])]>>
    [] group = "secondary" ->
         <<[url |-> "/v1/reports/button-clicks",
            params |-> Spread(params, [limit |-> 20])],
           [url |-> "/v1/reports/view-items",
            params |-> Spread(params, [limit |-> 20])],
           [url |-> "/v1/reports/screen-views-by-hour", params |-> params]>>

\* a load of OverviewPage at an await: its params, the group it awaits,
\* the fetches of the group still pending and the responses it has got
GroupLoad(group, params) ==
  [url |-> "loadData", params |-> params, group |-> group,
   waiting |-> IF group = "primary" THEN PrimaryGroup ELSE SecondaryGroup,
   got |-> EmptyObject]

\* the effect of OverviewPage on its dependencies
OverviewEffect(f) ==
  IF ~Truthy(f.projectKey)
  THEN [writes |-> [data |-> JNull, error |-> NoError], requests |-> <<>>]
  ELSE [writes |-> [loading |-> TRUE, error |-> NoError],
        requests |-> <<GroupLoad("primary",
                                 Spread([projectKey |-> f.projectKey],
                                        DateRange(f)))>>]

(***************************************************************************)
(* State.                                                                  *)
(***************************************************************************)
VARIABLES
  filters,    \* the FiltersState held by useState
  storage,    \* the localStorage item under STORAGE_KEY
  timers,     \* the live window.setInterval timers: [id, ms]
  cleanupId,  \* the timer id the effect's pending cleanup clears, or NoTimer
  now,        \* what Date.now() returns
  cleared,    \* history: the timers the last task's clearInterval cancelled
  status,     \* "mounted", "unmounted" or "crashed" (an exception escaped)
  lastOp,     \* history: the last operation, <<name, argument>>; for "init"
              \* <<"init", item read, refreshToken before the reload>>
  lastBatch,  \* history: what the setter calls of the handler not yet
              \* observed asked for, [written, asked]
  page,       \* the state of the page component the route shows
  presetStore,\* the localStorage items of the presets, by project key
  inflight,   \* the requests handed to the API client whose answer is
              \* still to come, in the order they were issued
  issued,     \* history: the loads the last task ran and the requests they
              \* handed to the API client, [runs, requests]
  arg,        \* the call of a pure function under test, <<name, input>>
  res         \* its result, Pending before the call

vars ==
  <<filters, storage, timers, cleanupId, cleared, now, status, lastOp,
    lastBatch, page, presetStore, inflight, issued, arg, res>>

\* the variables of the provider
providerVars ==
  <<filters, storage, timers, cleanupId, cleared, now, status, lastOp,
    lastBatch>>

\* the variables of the page and of its collaborators
pageVars == <<page, presetStore, inflight, issued>>

\* the variables of a call of a pure function
callVars == <<arg, res>>

Pending == [done |-> FALSE]
Done(v) == [done |-> TRUE, val |-> v]

\* no pure function is under test
NoCall == arg = <<"none", 0>> /\ res = Pending

\* a route that shows no report page, and no preset stored
NoPage ==
  /\ page = [route |-> "none"]
  /\ presetStore = [k \in ProjectKeyArgs |-> [kind |-> "absent"]]
  /\ inflight = <<>>
  /\ issued = [runs |-> 0, requests |-> <<>>]

\* nothing outside the provider changes
ProviderOnly == UNCHANGED <<page, presetStore, inflight, issued, arg, res>>

\* mounting the provider on the stored item: initializer, first render and
\* the mount effects
ProviderMount(item) ==
  LET init == InitialFilters(item)
  IN  /\ filters = init.val
      /\ status = IF init.threw THEN "crashed" ELSE "mounted"
      /\ storage = IF init.threw THEN item ELSE PersistEffect(init.val)
      /\ \E out \in (IF init.threw THEN {<<{}, NoTimer>>}
                     ELSE AutoRefreshEffect(init.val, {})) :
           timers = out[1] /\ cleanupId = out[2]
      /\ cleared = {}
      /\ now = 1
      /\ lastOp = <<"init", item, 0>>
      /\ lastBatch = [written |-> {}, asked |-> EmptyObject]

Init ==
  /\ \E item \in ForeignItems : ProviderMount(item)
  /\ NoPage
  /\ NoCall

\* React renders with the state next and runs the effects whose
\* dependencies changed: the persist effect ([filters]: every new state
\* object) and the auto-refresh effect (cleanup of the previous run first)
Render(next) ==
  /\ filters' = next
  /\ storage' = PersistEffect(next)
  /\ IF AutoRefreshDeps(next) # AutoRefreshDeps(filters)
     THEN /\ \E out \in AutoRefreshEffect(next,
                                          EffectCleanup(timers, cleanupId)) :
               timers' = out[1] /\ cleanupId' = out[2]
          /\ cleared' = timers \ EffectCleanup(timers, cleanupId)
     ELSE /\ UNCHANGED <<timers, cleanupId>>
          /\ cleared' = {}

\* an event handler that makes one setter call
Handler(call) ==
  /\ status = "mounted"
  /\ Render(ApplyCalls(filters, <<call>>))
  /\ lastOp' = call
  /\ UNCHANGED <<now, status, lastBatch>>

SetProjectKey(projectKey) == Handler(<<"setProjectKey", projectKey>>)
SetFrom(value) == Handler(<<"setFrom", value>>)
SetTo(value) == Handler(<<"setTo", value>>)
SetEventName(value) == Handler(<<"setEventName", value>>)
SetUserId(value) == Handler(<<"setUserId", value>>)
SetAnonymousId(value) == Handler(<<"setAnonymousId", value>>)
SetAutoRefreshEnabled(enabled) == Handler(<<"setAutoRefreshEnabled", enabled>>)
SetAutoRefreshInterval(interval) ==
  Handler(<<"setAutoRefreshInterval", interval>>)

TriggerRefresh ==
  /\ status = "mounted"
  /\ Render(triggerRefresh(filters, now))
  /\ lastOp' = <<"triggerRefresh", now>>
  /\ UNCHANGED <<now, status, lastBatch>>

ResetFilters ==
  /\ status = "mounted"
  /\ Render(resetFilters(filters, now))
  /\ lastOp' = <<"resetFilters", now>>
  /\ UNCHANGED <<now, status, lastBatch>>

\* a live timer fires; React drops a state update of an unmounted component
IntervalTick ==
  \E t \in timers :
    /\ status # "crashed"
    /\ IF status = "mounted"
       THEN Render(intervalTick(filters, now))
       ELSE UNCHANGED <<filters, storage, timers, cleanupId, cleared>>
    /\ lastOp' = <<"intervalTick", now>>
    /\ UNCHANGED <<now, status, lastBatch>>

\* time passes
ClockAdvance ==
  /\ now < MaxClock
  /\ now' = now + 1
  /\ UNCHANGED <<filters, storage, timers, cleanupId, cleared, status, lastOp,
                 lastBatch>>

\* the provider unmounts: React runs the pending effect cleanup.  The model
\* keeps the last state in filters to compare it with the next mount.
Unmount ==
  /\ status = "mounted"
  /\ status' = "unmounted"
  /\ timers' = EffectCleanup(timers, cleanupId)
  /\ cleared' = timers \ EffectCleanup(timers, cleanupId)
  /\ cleanupId' = NoTimer
  /\ lastOp' = <<"unmount", 0>>
  /\ UNCHANGED <<filters, storage, now, lastBatch>>

\* while the page is closed another writer replaces the stored item
ExternalWrite ==
  \E item \in ForeignItems :
    /\ status = "unmounted"
    /\ storage' = item
    /\ lastOp' = <<"externalWrite", item>>
    /\ cleared' = {}
    /\ UNCHANGED <<filters, timers, cleanupId, now, status, lastBatch>>

\* the page is loaded again: initializer, first render, mount effects
Mount ==
  /\ status = "unmounted"
  /\ LET init == InitialFilters(storage)
     IN  IF init.threw
         THEN /\ status' = "crashed"
              /\ UNCHANGED <<filters, storage, timers, cleanupId>>
         ELSE /\ status' = "mounted"
              /\ filters' = init.val
              /\ storage' = PersistEffect(init.val)
              /\ \E out \in AutoRefreshEffect(init.val, timers) :
                   timers' = out[1] /\ cleanupId' = out[2]
  /\ cleared' = {}
  /\ lastOp' = <<"init", storage, filters.refreshToken>>
  /\ UNCHANGED <<now, lastBatch>>

Next ==
  \/ \E v \in ProjectKeyArgs : SetProjectKey(v) /\ ProviderOnly
  \/ \E v \in StrArgs : SetFrom(v) /\ ProviderOnly
  \/ \E v \in StrArgs : SetTo(v) /\ ProviderOnly
  \/ \E v \in StrArgs : SetEventName(v) /\ ProviderOnly
  \/ \E v \in StrArgs : SetUserId(v) /\ ProviderOnly
  \/ \E v \in StrArgs : SetAnonymousId(v) /\ ProviderOnly
  \/ \E v \in BOOLEAN : SetAutoRefreshEnabled(v) /\ ProviderOnly
  \/ \E v \in RefreshInterval : SetAutoRefreshInterval(v) /\ ProviderOnly
  \/ TriggerRefresh /\ ProviderOnly
  \/ ResetFilters /\ ProviderOnly
  \/ IntervalTick /\ ProviderOnly
  \/ ClockAdvance /\ ProviderOnly
  \/ Unmount /\ ProviderOnly
  \/ ExternalWrite /\ ProviderOnly
  \/ Mount /\ ProviderOnly

Spec == Init /\ [][Next]_vars

(***************************************************************************)
(* Handlers that call several setters before React renders.  lastBatch     *)
(* keeps, until the new state has been observed, the fields whose setters  *)
(* were called and the value the calls asked for in every field.           *)
(***************************************************************************)
\* the sequences of exactly n setter calls
RECURSIVE CallSeqs(_)
CallSeqs(n) ==
  IF n = 0 THEN {<<>>}
  ELSE {Append(calls, c) : calls \in CallSeqs(n - 1), c \in SetterCalls}

Batches == UNION {CallSeqs(n) : n \in 1..MaxBatch}

NoBatch == [written |-> {}, asked |-> EmptyObject]

\* the value the first i calls ask for in field k: the argument of the
\* last of them that is a call of k's setter, or the old value when there
\* is none
RECURSIVE LastWrite(_, _, _, _)
LastWrite(calls, i, k, old) ==
  IF i = 0 THEN old
  ELSE IF FieldOf(calls[i][1]) = k THEN calls[i][2]
  ELSE LastWrite(calls, i - 1, k, old)

SetterBatch ==
  /\ status = "mounted"
  /\ lastBatch = NoBatch
  /\ \E calls \in Batches :
       /\ Render(ApplyCalls(filters, calls))
       /\ lastBatch' =
            [written |-> {FieldOf(calls[i][1]) : i \in 1..Len(calls)},
             asked |-> [k \in DOMAIN filters |->
                         LastWrite(calls, Len(calls), k, filters[k])]]
  /\ lastOp' = <<"batch", 0>>
  /\ UNCHANGED <<now, status>>

\* the consumers of the context have rendered with the new value: a task
\* that calls no operation and cancels no timer
BatchObserved ==
  /\ lastBatch # NoBatch
  /\ lastBatch' = NoBatch
  /\ lastOp' = <<"observed", 0>>
  /\ cleared' = {}
  /\ UNCHANGED <<filters, storage, timers, cleanupId, now, status>>

NextBatch ==
  \/ SetterBatch /\ ProviderOnly
  \/ BatchObserved /\ ProviderOnly

SpecBatch == Init /\ [][NextBatch]_vars

TypeOK ==
  /\ DOMAIN filters = Fields
  /\ status \in {"mounted", "unmounted", "crashed"}
  /\ now \in 1..MaxClock
  /\ cleanupId \in TimerIds \cup {NoTimer}

(***************************************************************************)
(* The report pages under the provider.  One action is one event-loop      *)
(* task: a handler's set calls, the render that applies them, the effects  *)
(* whose dependencies changed and, when an effect set state, the render    *)
(* and the effects after it.  issued keeps what the loads of the task did: *)
(* [runs, requests].                                                       *)
(***************************************************************************)
\* the state a page component starts with (its useState defaults)
InitialPage(route) ==
  CASE route = "funnel" ->
         [route |-> route, crashed |-> FALSE, data |-> <<>>,
          loading |-> FALSE, error |-> NoError, mode |-> "USER",
          processName |-> "checkout", steps |-> DEFAULT_FUNNEL_STEPS,
          stepsRef |-> 0, stepError |-> NoError, presets |-> JArr(<<>>)]
    [] route = "timeSeries" ->
         [route |-> route, crashed |-> FALSE, data |-> <<>>,
          loading |-> FALSE, error |-> NoError]
    [] route = "conversion" ->
         [route |-> route, crashed |-> FALSE, data |-> JNull,
          loading |-> FALSE, error |-> NoError,
          conversionEvent |-> "purchase_success"]
    [] route = "overview" ->
         [route |-> route, crashed |-> FALSE, data |-> JNull,
          loading |-> FALSE, error |-> NoError, buttonClicks |-> <<>>,
          viewItems |-> <<>>, screenViewsByHour |-> <<>>,
          detailsLoading |-> FALSE]

\* the writes w give the steps state another array than the one it holds
StepsChanged(p, w) ==
  /\ "steps" \in DOMAIN w
  /\ ~(w.stepsRef # 0 /\ w.stepsRef = p.stepsRef)

\* the dependency array of the load effect without filters.refreshToken
LoadDepsNoToken(f, p) ==
  <<f.projectKey, f.from, f.to,
    CASE p.route = "funnel" -> <<p.mode, p.processName>>
      [] p.route = "conversion" -> <<p.conversionEvent>>
      [] OTHER -> <<>> >>

\* the dependency array of the load effect of the page, the steps apart
LoadDeps(f, p) ==
  <<f.projectKey, f.from, f.to, f.refreshToken,
    CASE p.route = "funnel" -> <<p.mode, p.processName>>
      [] p.route = "conversion" -> <<p.conversionEvent>>
      [] OTHER -> <<>> >>

NoLoad == [writes |-> EmptyObject, requests |-> <<>>]

\* the effects of the funnel page after a render with filters f and state
\* p: the presets effect, the load effect, and the load effect again when
\* the presets effect set the steps.  An exception in an effect leaves
\* the later effects of the component unrun.
FunnelEffects(f, p, store, runPresets, runLoad) ==
  LET e1 == IF runPresets THEN PresetsEffect(f, store)
            ELSE [threw |-> FALSE, writes |-> EmptyObject]
      e3 == IF runLoad THEN loadFunnel(f, p) ELSE NoLoad
      p2 == Spread(Spread(p, e1.writes), e3.writes)
      again == StepsChanged(p, e1.writes)
      e4 == IF again THEN loadFunnel(f, p2) ELSE NoLoad
  IN  IF e1.threw
      THEN [page |-> Spread(p, [crashed |-> TRUE]),
            runs |-> 0, requests |-> <<>>]
      ELSE [page |-> Spread(p2, e4.writes),
            runs |-> (IF runLoad THEN 1 ELSE 0) + (IF again THEN 1 ELSE 0),
            requests |-> e3.requests \o e4.requests]

\* the effects of the page the route shows
PageEffects(f, p, store, runPresets, runLoad) ==
  CASE p.route = "funnel" -> FunnelEffects(f, p, store, runPresets, runLoad)
    [] p.route \in {"timeSeries", "conversion", "overview"} /\ runLoad ->
         LET e == CASE p.route = "timeSeries" -> TimeSeriesEffect(f)
                    [] p.route = "conversion" -> ConversionEffect(f, p)
                    [] p.route = "overview" -> OverviewEffect(f)
         IN  [page |-> Spread(p, e.writes), runs |-> 1,
              requests |-> e.requests]
    [] OTHER -> [page |-> p, runs |-> 0, requests |-> <<>>]

\* the requests of a task reach the API client; the model keeps in
\* inflight those the collaborator is going to answer
Issue(requests) ==
  \E keep \in SUBSET (1..Len(requests)) :
    /\ Len(inflight) + Cardinality(keep) <= MaxInflight
    /\ inflight' = inflight \o FilterAt(requests, keep, 1)

\* the collaborator answers none of the requests of this task
NoAnswer == inflight' = inflight

\* the collaborator is going to answer every request of this task
AllAnswered == inflight' = inflight \o issued'.requests

PageLive(route) ==
  /\ status = "mounted"
  /\ page.route = route
  /\ ~page.crashed

\* const hasProject = !!filters.projectKey: the editor, the presets and
\* the controls of the funnel page are rendered for a project only
FunnelControls == PageLive("funnel") /\ Truthy(filters.projectKey)

\* the page renders with the writes w of a handler and the filters f of
\* the provider, and its effects run; a task that changes the project key
\* writes no preset
PageTask(f, w) ==
  LET p1 == Spread(page, w)
      out == PageEffects(f, p1, presetStore,
                         f.projectKey # filters.projectKey,
                         LoadDeps(f, p1) # LoadDeps(filters, page)
                           \/ StepsChanged(page, w))
  IN  /\ page' = out.page
      /\ issued' = [runs |-> out.runs, requests |-> out.requests]
      /\ Issue(out.requests)

\* a handler of the page: the provider keeps its state
PageHandler(op, w) ==
  /\ UNCHANGED <<filters, storage, timers, cleanupId, now, status,
                 lastBatch, arg, res>>
  /\ cleared' = {}
  /\ lastOp' = op
  /\ PageTask(filters, w)

\* an operation of the provider while a page is shown
WithPage(ProviderAction) ==
  /\ page.route # "none"
  /\ ~page.crashed
  /\ ProviderAction
  /\ UNCHANGED <<presetStore, arg, res>>
  /\ PageTask(filters', EmptyObject)

HandleAddStep(stepName) ==
  /\ FunnelControls
  /\ Len(page.steps) < MaxSteps
  /\ UNCHANGED presetStore
  /\ PageHandler(<<"handleAddStep", stepName>>,
                 handleAddStep(page, stepName))

HandleRemoveStep(index) ==
  /\ FunnelControls
  /\ index \in 1..Len(page.steps)
  /\ UNCHANGED presetStore
  /\ PageHandler(<<"handleRemoveStep", index>>,
                 handleRemoveStep(page, index))

HandleMoveUp(index) ==
  /\ FunnelControls
  /\ index \in 1..Len(page.steps)
  /\ UNCHANGED presetStore
  /\ PageHandler(<<"handleMoveUp", index>>, handleMoveUp(page, index))

HandleMoveDown(index) ==
  /\ FunnelControls
  /\ index \in 1..Len(page.steps)
  /\ UNCHANGED presetStore
  /\ PageHandler(<<"handleMoveDown", index>>, handleMoveDown(page, index))

\* a click on a preset of the list the page shows
HandleLoadPreset(index) ==
  /\ FunnelControls
  /\ page.presets.t = "arr"
  /\ index \in 1..Len(page.presets.a)
  /\ UNCHANGED presetStore
  /\ PageHandler(<<"handleLoadPreset", index>>,
                 handleLoadPreset(page, index))

\* the Save button of the preset dialog with presetNameInput in its input
HandleSavePreset(presetNameInput) ==
  LET out == handleSavePreset(filters, page, presetStore, presetNameInput,
                              now)
  IN  /\ FunnelControls
      /\ presetStore' = out.store
      /\ PageHandler(<<"handleSavePreset", presetNameInput>>, out.writes)

\* the delete button of a preset of the list the page shows
HandleDeletePreset(index) ==
  /\ FunnelControls
  /\ page.presets.t = "arr"
  /\ index \in 1..Len(page.presets.a)
  /\ LET presetName == page.presets.a[index].presetName
         out == handleDeletePreset(filters, page, presetStore, presetName)
     IN  /\ presetStore' = out.store
         /\ PageHandler(<<"handleDeletePreset", presetName>>, out.writes)

\* onValueChange={(value) => setMode(value)}
SetMode(mode) ==
  /\ FunnelControls
  /\ UNCHANGED presetStore
  /\ PageHandler(<<"setMode", mode>>, [mode |-> mode])

\* onChange={(e) => setProcessName(e.target.value)}
SetProcessName(processName) ==
  /\ FunnelControls
  /\ UNCHANGED presetStore
  /\ PageHandler(<<"setProcessName", processName>>,
                 [processName |-> processName])

\* the Run Funnel button: onClick={loadFunnel}, disabled while loading and
\* in PROCESS mode without a process name
RunFunnel ==
  LET run == loadFunnel(filters, page)
  IN  /\ FunnelControls
      /\ ~page.loading
      /\ ~(page.mode = "PROCESS" /\ trim(page.processName) = "")
      /\ UNCHANGED <<filters, storage, timers, cleanupId, now, status,
                     lastBatch, arg, res, presetStore>>
      /\ cleared' = {}
      /\ lastOp' = <<"runFunnel", 0>>
      /\ page' = Spread(page, run.writes)
      /\ issued' = [runs |-> 1, requests |-> run.requests]
      /\ Issue(run.requests)

(***************************************************************************)
(* The funnel page with a project selected: the step editor.  The          *)
(* collaborator answers no request here.                                   *)
(***************************************************************************)
\* the page of the route mounts under the provider mounted on item, with
\* the preset store as found: first render and every effect
InitPage(route, item, store) ==
  /\ ProviderMount(item)
  /\ status = "mounted"
  /\ presetStore = store
  /\ NoCall
  /\ LET out == PageEffects(filters, InitialPage(route), store, TRUE, TRUE)
     IN  /\ page = out.page
         /\ issued = [runs |-> out.runs, requests |-> out.requests]
         /\ \E keep \in SUBSET (1..Len(out.requests)) :
              inflight = FilterAt(out.requests, keep, 1)

\* the text of the step input, or the suggestion clicked
StepNameArgs == {"login", " login ", "  ", "app_open", ""}

\* the preset record of project p1: none, or a preset of another writer
\* whose second step is blank
FunnelStores ==
  {EmptyStore,
   [EmptyStore EXCEPT !["p1"] =
      JsonStringifyArray(<<ForeignPreset("Blank", <<"login", " ">>)>>)]}

InitFunnel ==
  /\ \E store \in FunnelStores :
       InitPage("funnel", JsonStringify([projectKey |-> "p1"]), store)
  /\ inflight = <<>>

NextFunnel ==
  \/ \E n \in StepNameArgs : HandleAddStep(n) /\ NoAnswer
  \/ \E i \in 1..MaxSteps : HandleRemoveStep(i) /\ NoAnswer
  \/ \E i \in 1..MaxSteps : HandleMoveUp(i) /\ NoAnswer
  \/ \E i \in 1..MaxSteps : HandleMoveDown(i) /\ NoAnswer
  \/ \E i \in 1..MaxSteps : HandleLoadPreset(i) /\ NoAnswer

SpecFunnel == InitFunnel /\ [][NextFunnel]_vars

(***************************************************************************)
(* The funnel page and the preset record of project p1, as this page or    *)
(* another writer left it: project changes and the preset handlers.        *)
(***************************************************************************)
\* the text of the preset name input
PresetNameArgs == {"Default", " A ", " "}

\* the preset records another writer may have left for p1
DefaultStores ==
  {EmptyStore} \cup
  {[EmptyStore EXCEPT !["p1"] = JsonStringifyArray(l)] :
     l \in {<<ForeignPreset("Default", <<"login", "logout">>)>>,
            <<ForeignPreset("Default", <<"login">>)>>,
            <<ForeignPreset("A", <<"login", "logout">>),
              ForeignPreset("Default", <<"logout", "login">>)>>,
            <<ForeignPreset("A", <<"login", "logout">>)>>}}

InitPresets ==
  /\ \E store \in DefaultStores, k \in {Null, "p1"} :
       InitPage("funnel", JsonStringify([projectKey |-> k]), store)
  /\ inflight = <<>>

NextPresets ==
  \/ \E v \in ProjectKeyArgs : WithPage(SetProjectKey(v)) /\ NoAnswer
  \/ \E i \in 1..MaxSteps : HandleRemoveStep(i) /\ NoAnswer
  \/ \E i \in 1..MaxSteps : HandleLoadPreset(i) /\ NoAnswer
  \/ \E n \in PresetNameArgs : HandleSavePreset(n) /\ NoAnswer
  \/ \E i \in 1..MaxSteps : HandleDeletePreset(i) /\ NoAnswer

SpecPresets == InitPresets /\ [][NextPresets]_vars

(***************************************************************************)
(* The funnel page from its defaults and an empty preset store: every      *)
(* handler of the step editor and of the presets, and project changes.     *)
(***************************************************************************)
\* the text of the step input: a default step, padded, and a blank
EditorNameArgs == {" app_open ", "  "}

InitEditor ==
  /\ InitPage("funnel", JsonStringify([projectKey |-> "p1"]), EmptyStore)
  /\ inflight = <<>>

NextEditor ==
  \/ \E v \in {Null, "p1"} : WithPage(SetProjectKey(v)) /\ NoAnswer
  \/ \E n \in EditorNameArgs : HandleAddStep(n) /\ NoAnswer
  \/ \E i \in 1..MaxSteps : HandleRemoveStep(i) /\ NoAnswer
  \/ \E i \in 1..MaxSteps : HandleMoveUp(i) /\ NoAnswer
  \/ \E i \in 1..MaxSteps : HandleMoveDown(i) /\ NoAnswer
  \/ \E i \in 1..MaxSteps : HandleLoadPreset(i) /\ NoAnswer
  \/ HandleSavePreset("Default") /\ NoAnswer
  \/ \E i \in 1..MaxSteps : HandleDeletePreset(i) /\ NoAnswer

SpecEditor == InitEditor /\ [][NextEditor]_vars


(***************************************************************************)
(* The report pages and the collaborator: loads started by the filters,    *)
(* the mode, the process name and the Run button, and their answers.       *)
(***************************************************************************)
\* the responses the collaborator may give to a request; the first bucket
\* of a time series is the from date of the request
ResponsesTo(request) ==
  CASE request.url = "/v1/reports/funnel" ->
         {[steps |-> [k \in 1..Len(request.params.steps) |->
                        [eventName |-> request.params.steps[k],
                         users |-> c]]] : c \in {0, MaxCount}}
    [] request.url = "/v1/reports/events-timeseries" ->
         {[items |-> <<>>],
          [items |-> <<[time |-> IF "from" \in DOMAIN request.params
                                 THEN request.params.from ELSE "day1",
                        count |-> MaxCount]>>]}
    [] request.url = "/v1/reports/conversion" ->
         {[totalUsers |-> MaxCount, convertedUsers |-> 0,
           conversionRate |-> Zero]}

\* what a rejected request carries: err.response.data.error, err.message,
\* or neither
Failures ==
  {[response |-> "server error"], [message |-> "Network Error"],
   [message |-> ""], EmptyObject}

\* err?.response?.data?.error || err?.message || "Failed to load ..."
ErrorMessage(route, err) ==
  IF "response" \in DOMAIN err /\ Truthy(err.response)
  THEN [error |-> err.response]
  ELSE IF "message" \in DOMAIN err /\ Truthy(err.message)
  THEN [error |-> err.message]
  ELSE [error |-> CASE route = "funnel" -> "Failed to load funnel data"
                    [] route = "timeSeries" ->
                         "Failed to load time series data"
                    [] route = "conversion" ->
                         "Failed to load conversion data"
                    [] route = "overview" ->
                         "Failed to load overview data"]

\* the page state with no data
EmptyData(route) == IF route = "conversion" THEN JNull ELSE <<>>

\* the continuation of the load after its await, on a response
OnResponse(p, response) ==
  CASE p.route = "funnel" ->
         [data |-> ProcessedSteps(response.steps), loading |-> FALSE]
    [] p.route = "timeSeries" ->
         [data |-> response.items, loading |-> FALSE]
    [] p.route = "conversion" ->
         [data |-> [totalUsers |-> response.totalUsers,
                    convertedUsers |-> response.convertedUsers,
                    conversionRate |-> response.conversionRate],
          loading |-> FALSE]

\* the catch block without its setData
OnFailureKeepsData(p, err) ==
  [error |-> ErrorMessage(p.route, err), loading |-> FALSE]

\* the catch and finally blocks of the load
OnFailure(p, err) ==
  [error |-> ErrorMessage(p.route, err), data |-> EmptyData(p.route),
   loading |-> FALSE]

\* the sequence without its element at position i
Without(seq, i) == FilterAt(seq, (1..Len(seq)) \ {i}, 1)

\* the answer to the request at position i of inflight arrives; its writes
\* change no dependency of an effect
FetchSettle(i, w) ==
  /\ status = "mounted"
  /\ ~page.crashed
  /\ inflight' = Without(inflight, i)
  /\ page' = Spread(page, w)
  /\ issued' = [runs |-> 0, requests |-> <<>>]
  /\ cleared' = {}
  /\ UNCHANGED <<filters, storage, timers, cleanupId, now, status,
                 lastBatch, presetStore, arg, res>>

\* a resolution fenced by request id: only the answer to the latest
\* request is stored
FetchResolveFenced(i) ==
  /\ i \in 1..Len(inflight)
  /\ \E response \in ResponsesTo(inflight[i]) :
       /\ FetchSettle(i, IF i = Len(inflight)
                         THEN OnResponse(page, response)
                         ELSE EmptyObject)
       /\ lastOp' = <<"fetchResolve", i>>

FetchResolve(i) ==
  /\ i \in 1..Len(inflight)
  /\ \E response \in ResponsesTo(inflight[i]) :
       /\ FetchSettle(i, OnResponse(page, response))
       /\ lastOp' = <<"fetchResolve", i>>

FetchReject(i) ==
  /\ i \in 1..Len(inflight)
  /\ \E err \in Failures :
       /\ FetchSettle(i, OnFailure(page, err))
       /\ lastOp' = <<"fetchReject", i>>

\* the report pages
ReportRoutes == {"timeSeries", "conversion", "funnel"}

\* the text of the process name input
ProcessNameArgs == {"checkout", " ", ""}

InitFetch ==
  \E route \in ReportRoutes, store \in FunnelStores :
    InitPage(route,
             [kind |-> "json",
              val |-> JObj([projectKey |-> "p1",
                            autoRefreshEnabled |-> TRUE])],
             store)
    /\ inflight = <<>>

NextFetch ==
  \/ \E v \in ProjectKeyArgs : WithPage(SetProjectKey(v)) /\ NoAnswer
  \/ \E v \in StrArgs : WithPage(SetFrom(v)) /\ NoAnswer
  \/ WithPage(TriggerRefresh) /\ NoAnswer
  \/ WithPage(IntervalTick) /\ NoAnswer
  \/ ClockAdvance /\ UNCHANGED <<pageVars, callVars>>
  \/ \E m \in {"USER", "PROCESS"} : SetMode(m) /\ NoAnswer
  \/ \E n \in ProcessNameArgs : SetProcessName(n) /\ NoAnswer
  \/ \E i \in 1..MaxSteps : HandleLoadPreset(i) /\ NoAnswer

SpecFetch == InitFetch /\ [][NextFetch]_vars

(***************************************************************************)
(* A report page and the collaborator: loads started by the project and    *)
(* the from date, and the answers to them in any order.                    *)
(***************************************************************************)
InitAnswers ==
  /\ \E route \in ReportRoutes :
       InitPage(route, JsonStringify([projectKey |-> "p1"]), EmptyStore)
  /\ inflight = issued.requests

NextAnswers ==
  \/ \E v \in ProjectKeyArgs : WithPage(SetProjectKey(v)) /\ AllAnswered
  \/ \E v \in StrArgs : WithPage(SetFrom(v)) /\ AllAnswered
  \/ \E i \in 1..MaxInflight : FetchResolve(i)
  \/ \E i \in 1..MaxInflight : FetchReject(i)

SpecAnswers == InitAnswers /\ [][NextAnswers]_vars

(***************************************************************************)
(* The funnel page and the collaborator: loads started by the project,     *)
(* the mode, the process name, a preset and the Run button, and the        *)
(* answers to them.                                                        *)
(***************************************************************************)
InitRun ==
  \E store \in FunnelStores :
    InitPage("funnel", JsonStringify([projectKey |-> "p1"]), store)

NextRun ==
  \/ \E v \in ProjectKeyArgs : WithPage(SetProjectKey(v))
  \/ \E m \in {"USER", "PROCESS"} : SetMode(m)
  \/ \E n \in ProcessNameArgs : SetProcessName(n)
  \/ \E i \in 1..MaxSteps : HandleLoadPreset(i)
  \/ RunFunnel
  \/ \E i \in 1..MaxInflight : FetchResolve(i)
  \/ \E i \in 1..MaxInflight : FetchReject(i)

SpecRun == InitRun /\ [][NextRun]_vars

(***************************************************************************)
(* The overview page and the collaborator: a load awaits the primary       *)
(* group, stores its data, and awaits the secondary group.  Promise.all    *)
(* resolves with the last response of its group and rejects with the       *)
(* first failure.                                                          *)
(***************************************************************************)
\* the responses the collaborator may give to a fetch of the overview page
OverviewResponses(url) ==
  CASE url = "/v1/reports/overview" ->
         {[totalEvents |-> MaxCount, uniqueUsers |-> MaxCount]}
    [] url = "/v1/reports/conversion" -> {[conversionRate |-> Zero]}
    [] url = "/v1/reports/button-clicks" ->
         {[items |-> <<[buttonId |-> "b1", buttonText |-> "Buy",
                        count |-> MaxCount]>>]}
    [] url = "/v1/reports/view-items" ->
         {[items |-> <<[itemId |-> "i1", itemName |-> "Item",
                        count |-> MaxCount]>>]}
    [] url = "/v1/reports/screen-views-by-hour" -> {[items |-> <<>>]}

\* loadData after the first await: setData and setDetailsLoading(true)
OnPrimary(got) ==
  [data |-> [totalEvents |-> got["/v1/reports/overview"].totalEvents,
             uniqueUsers |-> got["/v1/reports/overview"].uniqueUsers,
             conversionRate |->
               got["/v1/reports/conversion"].conversionRate],
   detailsLoading |-> TRUE]

\* loadData after the second await, and the two finally blocks
OnSecondary(got) ==
  [buttonClicks |-> got["/v1/reports/button-clicks"].items,
   viewItems |-> got["/v1/reports/view-items"].items,
   screenViewsByHour |-> got["/v1/reports/screen-views-by-hour"].items,
   detailsLoading |-> FALSE, loading |-> FALSE]

\* loadData without the try/catch around the secondary group
OnGroupFailureNoInnerCatch(group, err) ==
  [error |-> ErrorMessage("overview", err), data |-> JNull,
   loading |-> FALSE]

\* the catch and finally blocks of loadData for a failure in the group
OnGroupFailure(group, err) ==
  IF group = "secondary"
  THEN [detailsLoading |-> FALSE, loading |-> FALSE]
  ELSE [error |-> ErrorMessage("overview", err), data |-> JNull,
        loading |-> FALSE]

\* what an answer to a fetch of the overview page leaves alone
GroupFrame ==
  /\ status = "mounted"
  /\ page.route = "overview"
  /\ ~page.crashed
  /\ cleared' = {}
  /\ UNCHANGED <<filters, storage, timers, cleanupId, now, status,
                 lastBatch, presetStore, arg, res>>

\* the fetch of url of the load at position i of inflight resolves
GroupResolve(i, url) ==
  /\ i \in 1..Len(inflight)
  /\ url \in inflight[i].waiting
  /\ GroupFrame
  /\ lastOp' = <<"groupResolve", i>>
  /\ \E response \in OverviewResponses(url) :
       LET load == inflight[i]
           got == Spread(load.got, [u \in {url} |-> response])
           rest == load.waiting \ {url}
       IN  IF rest # {}
           THEN /\ inflight' = [inflight EXCEPT ![i] =
                                  [load EXCEPT !.waiting = rest,
                                               !.got = got]]
                /\ page' = page
                /\ issued' = [runs |-> 0, requests |-> <<>>]
           ELSE IF load.group = "primary"
           THEN /\ inflight' = [inflight EXCEPT ![i] =
                                  GroupLoad("secondary", load.params)]
                /\ page' = Spread(page, OnPrimary(got))
                /\ issued' = [runs |-> 0,
                              requests |->
                                GroupRequests("secondary", load.params)]
           ELSE /\ inflight' = Without(inflight, i)
                /\ page' = Spread(page, OnSecondary(got))
                /\ issued' = [runs |-> 0, requests |-> <<>>]

\* the fetch of url of the load at position i of inflight fails: the
\* load leaves its await and takes no later answer
GroupReject(i, url) ==
  /\ i \in 1..Len(inflight)
  /\ url \in inflight[i].waiting
  /\ GroupFrame
  /\ lastOp' = <<"groupReject", i>>
  /\ \E err \in Failures :
       /\ inflight' = Without(inflight, i)
       /\ page' = Spread(page, OnGroupFailure(inflight[i].group, err))
       /\ issued' = [runs |-> 0, requests |-> <<>>]

InitOverview ==
  InitPage("overview", JsonStringify([projectKey |-> "p1"]), EmptyStore)

NextOverview ==
  \/ \E v \in StrArgs : WithPage(SetFrom(v))
  \/ \E i \in 1..MaxInflight, url \in PrimaryGroup \cup SecondaryGroup :
       GroupResolve(i, url)
  \/ \E i \in 1..MaxInflight, url \in PrimaryGroup \cup SecondaryGroup :
       GroupReject(i, url)

SpecOverview == InitOverview /\ [][NextOverview]_vars

(***************************************************************************)
(* Calls of the pure functions of the funnel page, on inputs drawn from    *)
(* bounded sets: validateSteps on a candidate step list, and the           *)
(* continuation of loadFunnel on the steps of a response.                  *)
(***************************************************************************)
\* the sequences of exactly n elements of S
RECURSIVE Tuples(_, _)
Tuples(S, n) ==
  IF n = 0 THEN {<<>>}
  ELSE {Append(t, x) : t \in Tuples(S, n - 1), x \in S}

\* the step names a candidate list is made of
StepStrings == {"a", " a", "b", " ", ""}

StepLists == UNION {Tuples(StepStrings, n) : n \in 0..MaxLen}

\* the entries { eventName, users } a response is made of
ResponseEntries ==
  {[eventName |-> e, users |-> c] : e \in {"a", "b"}, c \in 0..MaxCount}

ResponseSteps == UNION {Tuples(ResponseEntries, n) : n \in 0..MaxLen}

InitCalls ==
  /\ ProviderMount([kind |-> "absent"])
  /\ NoPage
  /\ arg \in {<<"validateSteps", l>> : l \in StepLists}
              \cup {<<"processedSteps", r>> : r \in ResponseSteps}
  /\ res = Pending

ValidateSteps ==
  /\ arg[1] = "validateSteps"
  /\ res = Pending
  /\ res' = Done(validateSteps(arg[2]))
  /\ UNCHANGED <<arg, providerVars, pageVars>>

ProcessResponse ==
  /\ arg[1] = "processedSteps"
  /\ res = Pending
  /\ res' = Done(ProcessedSteps(arg[2]))
  /\ UNCHANGED <<arg, providerVars, pageVars>>

NextCalls == ValidateSteps \/ ProcessResponse

SpecCalls == InitCalls /\ [][NextCalls]_vars

(***************************************************************************)
(* Calls of loadPresets, savePreset and deletePreset on a store another    *)
(* writer may have filled.  arg keeps the call with the store it found.    *)
(***************************************************************************)
\* the presets handed to savePreset
PresetArgs ==
  {[presetName |-> n, steps |-> st, createdAt |-> 1] :
     n \in {"Default", "A"}, st \in {<<"a", "b">>, <<"b", "a">>}}

\* the items a key of the store may hold before the first call
StartItems ==
  {[kind |-> "absent"], [kind |-> "garbage"],
   [kind |-> "json", val |-> JNull],
   [kind |-> "json", val |-> JNum(MaxCount)],
   [kind |-> "json", val |-> JObj(EmptyObject)],
   JsonStringifyArray(<<ForeignPreset("A", <<"a", "b">>),
                        ForeignPreset("A", <<"b", "a">>)>>)}

InitStore ==
  /\ ProviderMount([kind |-> "absent"])
  /\ page = [route |-> "none"]
  /\ inflight = <<>>
  /\ issued = [runs |-> 0, requests |-> <<>>]
  /\ presetStore \in [ProjectKeyArgs -> StartItems]
  /\ NoCall

LoadPresets(projectKey) ==
  /\ arg' = <<"loadPresets", [projectKey |-> projectKey,
                               store |-> presetStore]>>
  /\ res' = Done(loadPresets(presetStore, projectKey))
  /\ UNCHANGED <<presetStore, page, inflight, issued, providerVars>>

SavePreset(projectKey, preset) ==
  LET saved == savePreset(presetStore, projectKey, preset)
  IN  /\ arg' = <<"savePreset", [projectKey |-> projectKey,
                                  preset |-> preset, store |-> presetStore]>>
      /\ res' = Done([threw |-> saved.threw])
      /\ presetStore' = saved.store
      /\ UNCHANGED <<page, inflight, issued, providerVars>>

DeletePreset(projectKey, presetName) ==
  LET deleted == deletePreset(presetStore, projectKey, presetName)
  IN  /\ arg' = <<"deletePreset", [projectKey |-> projectKey,
                                    presetName |-> presetName,
                                    store |-> presetStore]>>
      /\ res' = Done([threw |-> deleted.threw])
      /\ presetStore' = deleted.store
      /\ UNCHANGED <<page, inflight, issued, providerVars>>

NextStore ==
  \/ \E k \in ProjectKeyArgs : LoadPresets(k)
  \/ \E k \in ProjectKeyArgs, preset \in PresetArgs : SavePreset(k, preset)
  \/ \E k \in ProjectKeyArgs, n \in {"Default", "A"} : DeletePreset(k, n)

SpecStore == InitStore /\ [][NextStore]_vars

(***************************************************************************)
(* Properties.                                                             *)
(***************************************************************************)
SavedFields == Fields \ {"refreshToken"}

\* a project is selected: projectKey is neither null nor the empty string
ProjectPresent == filters.projectKey # Null /\ filters.projectKey # ""

\* C1: while the provider is mounted, after every setter or resetFilters
\* call (and every other operation) the item under the filters key is the
\* JSON object holding exactly the eight fields other than refreshToken,
\* each with the value it has in the current FiltersState.
C1_PersistedMatchesState ==
  status = "mounted" =>
    /\ storage.kind = "json"
    /\ storage.val.t = "obj"
    /\ DOMAIN storage.val.o = SavedFields
    /\ "refreshToken" \notin DOMAIN storage.val.o
    /\ \A k \in SavedFields : storage.val.o[k] = filters[k]

\* C1 witness: a setter has run in a state whose refreshToken is not the
\* default, and the stored record carries the new field value.
C1_Witness ==
  /\ status = "mounted"
  /\ lastOp = <<"setAutoRefreshInterval", 60>>
  /\ filters.refreshToken > 0
  /\ filters.from = "a"
  /\ storage.val.o.autoRefreshInterval = 60
  /\ storage.val.o.from = "a"

\* a step of one of the three operations that write refreshToken
RefreshStep ==
  \/ TriggerRefresh
  \/ ResetFilters
  \/ (status = "mounted" /\ IntervalTick)

\* C2: every triggerRefresh(), timer tick and resetFilters() leaves
\* refreshToken strictly greater than it was before the operation.
C2_StrictlyIncreasing ==
  [][RefreshStep => filters'.refreshToken > filters.refreshToken]_vars

\* C3: after every initialization refreshToken is 0, and every other field
\* the stored record holds has the record's value.
C3_TokenNeverRestored ==
  (lastOp[1] = "init" /\ status = "mounted") =>
    /\ filters.refreshToken = 0
    /\ LET item == lastOp[2]
       IN  (item.kind = "json" /\ item.val.t = "obj") =>
             \A k \in (DOMAIN item.val.o) \ {"refreshToken"} :
               filters[k] = item.val.o[k]

\* C3 witness: reloaded, with a non-zero refreshToken before the reload,
\* from a record that carries a refreshToken field and another field.
C3_Witness ==
  /\ lastOp[1] = "init"
  /\ lastOp[3] = 3
  /\ status = "mounted"
  /\ lastOp[2].kind = "json"
  /\ lastOp[2].val.t = "obj"
  /\ "refreshToken" \in DOMAIN lastOp[2].val.o
  /\ lastOp[2].val.o.refreshToken = 2
  /\ filters.from = "a"
  /\ filters.refreshToken = 0

\* C4: while mounted, a timer is live exactly when autoRefreshEnabled is
\* true and projectKey is present (neither null nor the empty string).
C4_ArmedIffEnabledAndProject ==
  status = "mounted" =>
    ((timers # {}) <=> (filters.autoRefreshEnabled = TRUE /\ ProjectPresent))

\* C4 witness: auto refresh is enabled, the project key has just been set
\* to the empty string, and the timer is disarmed.
C4_Witness ==
  /\ status = "mounted"
  /\ lastOp = <<"setProjectKey", "">>
  /\ filters.autoRefreshEnabled = TRUE
  /\ cleared # {}
  /\ timers = {}

\* C5: at most one timer is live in any state, the live timer's period is
\* autoRefreshInterval seconds, and a render that changes
\* autoRefreshEnabled, autoRefreshInterval or projectKey cancels the timers
\* that were running.
C5_SingleTimerWithCurrentPeriod ==
  /\ [](/\ Cardinality(timers) <= 1
        /\ status = "mounted" =>
             \A t \in timers : t.ms = filters.autoRefreshInterval * 1000)
  /\ [][(/\ status = "mounted" /\ status' = "mounted"
         /\ \/ filters'.autoRefreshEnabled # filters.autoRefreshEnabled
            \/ filters'.autoRefreshInterval # filters.autoRefreshInterval
            \/ filters'.projectKey # filters.projectKey)
        => cleared' = timers]_vars

\* C5 witness: the interval was changed while a 30 s timer ran; that timer
\* was cancelled and one 60 s timer is live.
C5_Witness ==
  /\ status = "mounted"
  /\ lastOp = <<"setAutoRefreshInterval", 60>>
  /\ \E t \in cleared : t.ms = 30000
  /\ Cardinality(timers) = 1
  /\ \A t \in timers : t.ms = 60000

\* C6: after the provider is unmounted no timer is live, the unmount
\* cancels the timer that was running, and nothing changes FiltersState
\* while the provider stays unmounted.
C6_TeardownCancelsTimer ==
  /\ [](status = "unmounted" => timers = {})
  /\ [][(status = "mounted" /\ status' = "unmounted") => cleared' = timers]_vars
  /\ [][(status = "unmounted" /\ status' = "unmounted")
        => filters' = filters]_vars

\* C6 witness: the provider was unmounted while armed; the timer is gone.
C6_Witness ==
  /\ status = "unmounted"
  /\ lastOp[1] = "unmount"
  /\ cleared # {}
  /\ filters.autoRefreshEnabled = TRUE
  /\ ProjectPresent
  /\ timers = {}

\* C7: after a handler has called one or several setters, every field has
\* the argument of the last call of its own setter, and a field whose
\* setter was not called, refreshToken included, has the value it had
\* before the handler.
C7_SettersWriteOwnFieldOnly ==
  lastBatch.written # {} =>
    /\ DOMAIN filters = Fields
    /\ DOMAIN lastBatch.asked = Fields
    /\ \A k \in Fields : filters[k] = lastBatch.asked[k]

\* C7 witness: one handler called setFrom and setProjectKey while auto
\* refresh was enabled; both new values are in the state and the timer that
\* the new project key arms is live.
C7_Witness ==
  /\ lastBatch.written = {"from", "projectKey"}
  /\ filters.from = "a"
  /\ filters.projectKey = "p1"
  /\ filters.to = ""
  /\ filters.autoRefreshEnabled = TRUE
  /\ cleared = {}
  /\ timers # {}

C9_ResetRestoresDefaults ==
  [][ResetFilters =>
       /\ filters'.projectKey = Null
       /\ filters'.from = "" /\ filters'.to = "" /\ filters'.eventName = ""
       /\ filters'.userId = "" /\ filters'.anonymousId = ""
       /\ filters'.autoRefreshEnabled = FALSE
       /\ filters'.autoRefreshInterval = 30
       /\ filters'.refreshToken > filters.refreshToken
       /\ timers' = {}
       /\ storage'.kind = "json"
       /\ storage'.val.t = "obj"
       /\ DOMAIN storage'.val.o = SavedFields
       /\ \A k \in SavedFields : storage'.val.o[k] = defaultFilters[k]]_vars

\* C10: initialization never raises, and from an absent, empty or
\* unparsable item it yields exactly the default FiltersState.
C10_CorruptRecordGivesDefaults ==
  /\ status # "crashed"
  /\ (lastOp[1] = "init" /\ lastOp[2].kind \in {"absent", "empty", "garbage"})
       => /\ status = "mounted"
          /\ DOMAIN filters = Fields
          /\ filters.projectKey = Null
          /\ filters.from = "" /\ filters.to = "" /\ filters.eventName = ""
          /\ filters.userId = "" /\ filters.anonymousId = ""
          /\ filters.autoRefreshEnabled = FALSE
          /\ filters.autoRefreshInterval = 30
          /\ filters.refreshToken = 0

\* C10 witness: the provider was mounted again on an unparsable item, its
\* refreshToken having been non-zero before, and holds the defaults.
C10_Witness ==
  /\ status = "mounted"
  /\ lastOp[1] = "init"
  /\ lastOp[2] = [kind |-> "garbage"]
  /\ lastOp[3] > 0
  /\ filters.projectKey = Null
  /\ filters.refreshToken = 0

\* the trimmed names of the list s that occur at more than one position
Repeated(s) ==
  {trim(s[i]) : i \in {i \in 1..Len(s) :
                         \E j \in 1..Len(s) :
                           j # i /\ trim(s[j]) = trim(s[i])}}

\* C12: validateSteps returns no error exactly when the list has at least
\* 2 elements, none of them blank after trimming, and the trimmed elements
\* pairwise distinct; otherwise it returns the first failing check in the
\* order TooFewSteps, BlankStep, DuplicateStep, the last naming the
\* repeated names
C12_ValidateSteps ==
  (arg[1] = "validateSteps" /\ res.done) =>
    LET s == arg[2]
        blank == \E i \in 1..Len(s) : trim(s[i]) = ""
    IN  /\ res.val = NoError
             <=> (Len(s) >= 2 /\ ~blank /\ Repeated(s) = {})
        /\ Len(s) < 2 => res.val = TooFewSteps
        /\ Len(s) >= 2 /\ blank => res.val = BlankStep
        /\ Len(s) >= 2 /\ ~blank /\ Repeated(s) # {}
             => /\ DOMAIN res.val = {"error", "names"}
                /\ res.val.error = "Duplicate steps found"
                /\ {res.val.names[i] : i \in 1..Len(res.val.names)}
                     = Repeated(s)
        /\ s = <<"a">> => res.val = TooFewSteps
        /\ s = <<"a", " ">> => res.val = BlankStep
        /\ s = <<"a", "a">> => res.val = DuplicateStep(<<"a">>)

\* a list of three with a blank and a repeated name has been validated
C12_Witness ==
  /\ arg = <<"validateSteps", <<"a", "a", " ">>>>
  /\ res = Done(BlankStep)

\* the number x is the quotient n / d
IsQuotient(x, n, d) ==
  /\ DOMAIN x = {"n", "d"}
  /\ x.d > 0
  /\ x.n * d = n * x.d

\* the number x is the percentage n * 100 / d, and 0 when d is 0
IsPercent(x, n, d) ==
  IF d = 0 THEN x = Zero ELSE IsQuotient(x, n * 100, d)

\* the metrics of the counts [1000, 400, 100]
Example17 ==
  ProcessedSteps(<<[eventName |-> "a", users |-> 1000],
                   [eventName |-> "b", users |-> 400],
                   [eventName |-> "c", users |-> 100]>>)

\* C17: for the counts c_1..c_n of a response, entry i > 1 carries the
\* drop-off (c_{i-1} - c_i) * 100 / c_{i-1} and the conversion rate
\* c_i * 100 / c_{i-1}, the first entry carries neither, every entry
\* carries the bar width c_i * 100 / c_1, and each value is 0 when its
\* denominator is 0
C17_Metrics ==
  /\ (arg[1] = "processedSteps" /\ res.done) =>
       \A i \in 1..Len(arg[2]) :
         LET c(k) == arg[2][k].users
             out == res.val[i]
         IN  /\ i = 1 => /\ out.dropOff = Undefined
                          /\ out.conversionRate = Undefined
             /\ i > 1 => /\ IsPercent(out.dropOff, c(i - 1) - c(i), c(i - 1))
                          /\ IsPercent(out.conversionRate, c(i), c(i - 1))
             /\ IsPercent(out.barWidth, c(i), c(1))
  /\ [i \in 1..3 |-> Example17[i].dropOff]
       = <<Undefined, Frac(60, 1), Frac(75, 1)>>
  /\ [i \in 1..3 |-> Example17[i].conversionRate]
       = <<Undefined, Frac(40, 1), Frac(25, 1)>>
  /\ [i \in 1..3 |-> Example17[i].barWidth]
       = <<Frac(100, 1), Frac(40, 1), Frac(10, 1)>>

\* the counts [2, 0, 1] have been processed: a drop-off of 100, then a
\* previous count of 0
C17_Witness ==
  /\ arg[1] = "processedSteps"
  /\ res.done
  /\ [i \in 1..Len(arg[2]) |-> arg[2][i].users] = <<2, 0, 1>>
  /\ res.val[2].dropOff = Frac(100, 1)
  /\ res.val[3].dropOff = Zero
  /\ res.val[3].barWidth = Frac(50, 1)

\* C18: the processed sequence is as long as the response's step sequence
\* and entry i carries the eventName and the count of the response's
\* entry i
C18_ResultFollowsResponse ==
  (arg[1] = "processedSteps" /\ res.done) =>
    /\ Len(res.val) = Len(arg[2])
    /\ \A i \in 1..Len(arg[2]) :
         /\ res.val[i].eventName = arg[2][i].eventName
         /\ res.val[i].users = arg[2][i].users

\* a response that repeats an event name, its counts not in order, has
\* been processed
C18_Witness ==
  /\ arg[1] = "processedSteps"
  /\ res.done
  /\ Len(arg[2]) = 3
  /\ arg[2][1].eventName = arg[2][3].eventName
  /\ arg[2][1].users < arg[2][2].users
  /\ Len(res.val) = 3

\* the list loadPresets returns for project key k
ListOf(store, k) == loadPresets(store, k).val

\* the item under key k holds a list, or nothing loadPresets can parse
HoldsList(store, k) == ListOf(store, k).t = "arr"

\* the names of the presets of project key k are pairwise distinct
NamesDistinct(k) ==
  HoldsList(presetStore, k) =>
    LET l == ListOf(presetStore, k).a
    IN  \A i, j \in 1..Len(l) : l[i].presetName = l[j].presetName => i = j

\* after savePreset(k, P) on a present project whose record held a list,
\* the list of k holds P once, under no other entry of P's name, and the
\* other presets as they were
SaveIsUpsert ==
  (/\ arg[1] = "savePreset"
   /\ Truthy(arg[2].projectKey)
   /\ HoldsList(arg[2].store, arg[2].projectKey)) =>
    LET k == arg[2].projectKey
        l == ListOf(presetStore, k).a
        named == {i \in 1..Len(l) :
                    l[i].presetName = arg[2].preset.presetName}
    IN  /\ Cardinality(named) = 1
        /\ \A i \in named : l[i].steps = arg[2].preset.steps
        /\ SelectSeq(l, LAMBDA q :
                       q.presetName # arg[2].preset.presetName)
             = SelectSeq(ListOf(arg[2].store, k).a, LAMBDA q :
                           q.presetName # arg[2].preset.presetName)

\* C19: savePreset is an upsert by presetName: afterwards the project's
\* list holds exactly one preset of the saved name, carrying the saved
\* steps; so from an empty store every sequence of saves and deletes
\* keeps the preset names of a project pairwise distinct, and a second
\* save of a name keeps the later steps
C19_SaveIsUpsert ==
  /\ []SaveIsUpsert
  /\ (presetStore = EmptyStore => [](\A k \in ProjectKeyArgs : NamesDistinct(k)))

\* a name already stored with other steps, next to another preset, has
\* been saved again
C19_Witness ==
  /\ arg[1] = "savePreset"
  /\ arg[2].projectKey = "p1"
  /\ HoldsList(arg[2].store, "p1")
  /\ LET before == ListOf(arg[2].store, "p1").a
         after == ListOf(presetStore, "p1").a
     IN  /\ Len(before) = 2 /\ Len(after) = 2
         /\ before[1].presetName = arg[2].preset.presetName
         /\ before[1].steps # arg[2].preset.steps
         /\ before[1].createdAt = 1
         /\ after[2] = arg[2].preset

\* C20: with an absent project key (null or empty) loadPresets returns an
\* empty list, savePreset and deletePreset leave every stored record as
\* it was, and none of the three raises
C20_AbsentProjectIsNoOp ==
  (arg[1] # "none" /\ ~Truthy(arg[2].projectKey)) =>
    /\ arg[1] = "loadPresets"
         => res = Done([threw |-> FALSE, val |-> JArr(<<>>)])
    /\ arg[1] \in {"savePreset", "deletePreset"}
         => res = Done([threw |-> FALSE])
    /\ presetStore = arg[2].store

\* loadPresets has been called with null while the key of null holds a
\* list of presets
C20_Witness ==
  /\ arg[1] = "loadPresets"
  /\ arg[2].projectKey = Null
  /\ ListOf(presetStore, "p1") # JArr(<<>>)
  /\ presetStore[Null].kind = "json"
  /\ presetStore[Null].val.t = "arr"
  /\ res.done

\* the step list without the element at position index
Removed(list, index) == FilterAt(list, (1..Len(list)) \ {index}, 1)

\* C13: addStep, removeStep, moveUp and moveDown validate the resulting
\* step list before committing it: a list validateSteps fails on is never
\* committed, the step list stays as it was
C13_ValidationGatesMutation ==
  [][(/\ lastOp'[1] \in {"handleAddStep", "handleRemoveStep",
                          "handleMoveUp", "handleMoveDown"}
      /\ page'.steps # page.steps)
       => validateSteps(page'.steps) = NoError]_vars

\* C14 as stated: removing a step from a 2-step list succeeds and leaves
\* a 1-step list
C14_RemoveGoesBelowTwo ==
  [][(lastOp'[1] = "handleRemoveStep" /\ Len(page.steps) = 2)
       => Len(page'.steps) = 1]_vars

\* C14 amended: removeStep(index) commits the list without the element at
\* index when validateSteps passes on it and leaves the list as it was
\* otherwise; removing a step from a 2-step list is rejected with
\* TooFewSteps, and the step list never has fewer than 2 elements
C14_RemoveIsGated ==
  /\ [][lastOp'[1] = "handleRemoveStep" =>
          LET newSteps == Removed(page.steps, lastOp'[2])
          IN  /\ validateSteps(newSteps) = NoError
                   => page'.steps = newSteps
              /\ validateSteps(newSteps) # NoError
                   => /\ page'.steps = page.steps
                      /\ page'.stepError = validateSteps(newSteps)
              /\ Len(page.steps) = 2
                   => /\ page'.steps = page.steps
                      /\ page'.stepError = TooFewSteps]_vars
  /\ [](Len(page.steps) >= 2)

\* the removal of a step of a 2-step list has been rejected
C14_Witness ==
  /\ lastOp[1] = "handleRemoveStep"
  /\ Len(page.steps) = 2
  /\ page.stepError = TooFewSteps

\* C15 as stated: addStep(name) leaves the step list unchanged when name
\* trims to empty or is in the list already, and otherwise appends the
\* trimmed name as the last element
C15_AddAppendsOrRejects ==
  [][lastOp'[1] = "handleAddStep" =>
       LET trimmed == trim(lastOp'[2])
       IN  IF trimmed = "" \/ includes(page.steps, trimmed)
           THEN page'.steps = page.steps
           ELSE page'.steps = Append(page.steps, trimmed)]_vars

\* C15 amended: addStep(name) leaves the step list unchanged when name
\* trims to empty, when the trimmed name is in the list already, or when
\* validateSteps fails on the list with the trimmed name appended;
\* otherwise it appends the trimmed name as the last element and leaves
\* the existing elements and their order unchanged
C15_AddIsGated ==
  /\ [][lastOp'[1] = "handleAddStep" =>
          LET trimmed == trim(lastOp'[2])
              newSteps == Append(page.steps, trimmed)
          IN  IF \/ trimmed = ""
                 \/ includes(page.steps, trimmed)
                 \/ validateSteps(newSteps) # NoError
              THEN page'.steps = page.steps
              ELSE /\ page'.steps = newSteps
                   /\ SubSeq(page'.steps, 1, Len(page.steps)) = page.steps
                   /\ page'.steps[Len(page'.steps)] = trimmed]_vars
  /\ [](LET p == [steps |-> <<"app_open">>]
        IN  /\ "steps" \notin DOMAIN handleAddStep(p, "app_open")
            /\ "steps" \notin DOMAIN handleAddStep(p, "  ")
            /\ handleAddStep(p, "login").steps = <<"app_open", "login">>)

\* a padded name has been added to the default steps
C15_Witness ==
  /\ lastOp = <<"handleAddStep", " login ">>
  /\ page.steps = Append(DEFAULT_FUNNEL_STEPS, "login")
  /\ page.stepError = NoError

\* the request r carries the project key of the filters f, and their from
\* and to when these are not blank
CarriesFilters(r, f) ==
  /\ r.params.projectKey = f.projectKey
  /\ \A k \in {"from", "to"} :
       IF f[k] # "" /\ trim(f[k]) # ""
       THEN k \in DOMAIN r.params /\ r.params[k] = f[k]
       ELSE k \notin DOMAIN r.params

\* this step changes refreshToken under a mounted report page
TokenChanges ==
  /\ filters'.refreshToken # filters.refreshToken
  /\ status' = "mounted"
  /\ page'.route # "none"
  /\ ~page'.crashed

\* the page p has nothing to fetch with but the filters, or its steps pass
\* validateSteps and its mode has the process name it needs
Fetchable(p) ==
  \/ p.route # "funnel"
  \/ /\ validateSteps(p.steps) = NoError
     /\ p.mode = "USER" \/ trim(p.processName) # ""

\* C11 as stated: every change of refreshToken while a project is selected
\* makes the mounted report page issue a new fetch with the current
\* projectKey and date range; with no project selected the page issues no
\* fetch and has empty data and no error
C11_TokenChangeFetches ==
  [][TokenChanges =>
       IF Truthy(filters'.projectKey)
       THEN /\ Len(issued'.requests) >= 1
            /\ \A i \in 1..Len(issued'.requests) :
                 CarriesFilters(issued'.requests[i], filters')
       ELSE /\ issued'.requests = <<>>
            /\ page'.data = InitialPage(page.route).data
            /\ page'.error = NoError]_vars

\* C11 amended: every change of refreshToken while a project is selected
\* makes the time-series page and the conversion page issue one new fetch
\* with the current projectKey and date range, and the funnel page too
\* when validateSteps passes on its steps and its mode is USER or its
\* processName is non-empty after trimming; otherwise the funnel page
\* issues no fetch and has an error and empty data.  With no project
\* selected a page issues no fetch and has empty data and no error
C11_TokenChangeRunsLoad ==
  [][TokenChanges =>
       IF ~Truthy(filters'.projectKey)
       THEN /\ issued'.requests = <<>>
            /\ page'.data = InitialPage(page.route).data
            /\ page'.error = NoError
       ELSE IF Fetchable(page)
       THEN /\ Len(issued'.requests) = 1
            /\ CarriesFilters(issued'.requests[1], filters')
            /\ page'.loading
            /\ page'.error = NoError
       ELSE /\ issued'.requests = <<>>
            /\ page'.error # NoError
            /\ page'.data = <<>>]_vars

\* a refresh has made the funnel page fetch with the date range set, and
\* so has a timer tick on the other pages
C11_Witness ==
  /\ lastOp[1] \in {"triggerRefresh", "intervalTick"}
  /\ filters.refreshToken # 0
  /\ filters.from = "a"
  /\ Len(issued.requests) = 1
  /\ issued.requests[1].params.from = "a"
  /\ issued.requests[1].params.projectKey = "p1"

\* the loads of this step called the collaborator only with a project
\* selected, with steps of the page that pass validateSteps, and in USER
\* mode or with the trimmed, non-empty process name
CallsOnlyWhenAllowed ==
  \A i \in 1..Len(issued'.requests) :
    LET r == issued'.requests[i]
    IN  /\ r.url = "/v1/reports/funnel"
        /\ Truthy(filters'.projectKey)
        /\ r.params.projectKey = filters'.projectKey
        /\ r.params.steps \in {page.steps, page'.steps}
        /\ validateSteps(r.params.steps) = NoError
        /\ r.params.mode = page'.mode
        /\ \/ r.params.mode = "USER"
           \/ /\ "processName" \in DOMAIN r.params
              /\ r.params.processName = trim(page'.processName)
              /\ r.params.processName # ""

\* the page is in PROCESS mode with a process name that trims to empty
BlankProcess(p) == p.mode = "PROCESS" /\ trim(p.processName) = ""

\* C16 as stated: execute calls the GetFunnel collaborator only when a
\* project is selected, validateSteps passes on the current steps, and
\* mode is USER or processName is non-empty after trimming; when mode is
\* PROCESS and processName trims to empty it fails with
\* MissingProcessName, issues no call and leaves the result data empty
C16_ExecuteGuards ==
  [][issued'.runs > 0 =>
       /\ CallsOnlyWhenAllowed
       /\ BlankProcess(page')
            => /\ page'.error = MissingProcessName
               /\ issued'.requests = <<>>
               /\ page'.data = <<>>]_vars

\* C16 amended: execute calls the GetFunnel collaborator only when a
\* project is selected, validateSteps passes on the current steps, and
\* mode is USER or processName is non-empty after trimming.  It checks in
\* this order: with no project selected it issues no call and leaves the
\* data empty and the error cleared; otherwise, when validateSteps fails,
\* it fails with that validation error, issues no call and leaves the
\* data empty; otherwise, when mode is PROCESS and processName trims to
\* empty, it fails with MissingProcessName, issues no call and leaves the
\* data empty
C16_ExecuteGuardsInOrder ==
  [][issued'.runs > 0 =>
       /\ CallsOnlyWhenAllowed
       /\ IF ~Truthy(filters'.projectKey)
          THEN /\ issued'.requests = <<>>
               /\ page'.data = <<>>
               /\ page'.error = NoError
          ELSE IF validateSteps(page'.steps) # NoError
          THEN /\ page'.error.error = "Invalid funnel steps"
               /\ page'.error.cause = validateSteps(page'.steps)
               /\ page'.data = <<>>
          ELSE IF BlankProcess(page')
          THEN /\ page'.error = MissingProcessName
               /\ issued'.requests = <<>>
               /\ page'.data = <<>>
          ELSE /\ issued'.requests # <<>>
               /\ page'.error = NoError
               /\ page'.loading]_vars

\* the process name has been blanked in PROCESS mode with a project
\* selected and valid steps: MissingProcessName, no call, no data
C16_Witness ==
  /\ lastOp = <<"setProcessName", " ">>
  /\ page.mode = "PROCESS"
  /\ Truthy(filters.projectKey)
  /\ page.error = MissingProcessName
  /\ issued = [runs |-> 1, requests |-> <<>>]
  /\ page.data = <<>>

\* the record of project key k in the store is missing, not parsable, or
\* parsable but no array
CorruptRecord(store, k) ==
  \/ store[k].kind \in {"absent", "empty", "garbage"}
  \/ store[k].kind = "json" /\ store[k].val.t # "arr"

\* C21: whatever the stored presets record of a project holds (nothing,
\* text that is not parsable, or a parsable value that is no array, such
\* as null, a number or an object), loadPresets returns an empty list and
\* does not raise, a savePreset(project, P) after it stores exactly [P],
\* and the preset-loading effect of the page does not fail on the record
C21_CorruptRecordDegrades ==
  /\ (/\ arg[1] = "loadPresets"
      /\ Truthy(arg[2].projectKey)
      /\ CorruptRecord(arg[2].store, arg[2].projectKey))
       => res = Done([threw |-> FALSE, val |-> JArr(<<>>)])
  /\ (/\ arg[1] = "savePreset"
      /\ Truthy(arg[2].projectKey)
      /\ CorruptRecord(arg[2].store, arg[2].projectKey))
       => /\ res = Done([threw |-> FALSE])
          /\ presetStore[arg[2].projectKey]
               = JsonStringifyArray(<<arg[2].preset>>)
  /\ \A k \in ProjectKeyArgs :
       Truthy(k) /\ CorruptRecord(presetStore, k)
         => ~PresetsEffect([projectKey |-> k], presetStore).threw

\* the presets the record of project key k holds, none when it holds no
\* array
StoredPresets(store, k) ==
  IF store[k].kind = "json" /\ store[k].val.t = "arr"
  THEN store[k].val.a ELSE <<>>

\* the steps of the presets of k named "Default" with at least 2 steps
DefaultSteps(store, k) ==
  LET l == StoredPresets(store, k)
  IN  {l[i].steps : i \in {j \in 1..Len(l) :
                             /\ l[j].presetName = "Default"
                             /\ Len(l[j].steps) >= 2}}

\* the steps the funnel page has after project k became selected, given
\* the steps it had
StepsAfterSelection(before, after, k) ==
  IF DefaultSteps(presetStore, k) # {}
  THEN after \in DefaultSteps(presetStore, k)
  ELSE after = before

\* C22: when a project becomes selected (by a change of the project key,
\* or at the mount of the page under a persisted project) and its presets
\* hold one named "Default" with at least 2 steps, the step list becomes
\* that preset's steps; with no such preset, or one with fewer than 2
\* steps, the step list is left as it was
C22_DefaultPresetLoads ==
  /\ [][(/\ page.route = "funnel"
         /\ ~page.crashed
         /\ filters'.projectKey # filters.projectKey
         /\ Truthy(filters'.projectKey))
          => StepsAfterSelection(page.steps, page'.steps,
                                 filters'.projectKey)]_vars
  /\ [](lastOp[1] = "init" /\ Truthy(filters.projectKey)
          => StepsAfterSelection(DEFAULT_FUNNEL_STEPS, page.steps,
                                 filters.projectKey))

\* p1 has been selected while its record held a Default preset saved by
\* this page next to another preset; the page has the steps of Default
C22_Witness ==
  /\ lastOp = <<"setProjectKey", "p1">>
  /\ Len(page.steps) = 3
  /\ DefaultSteps(presetStore, "p1") = {page.steps}
  /\ Len(StoredPresets(presetStore, "p1")) = 2

\* C23: when a report fetch fails, the page ends the load with a
\* non-empty error message, its data reset to empty whatever an earlier
\* fetch had stored, and loading false; the failure does not leave the
\* load: the page stays mounted
C23_FailureResetsPage ==
  [][lastOp'[1] = "fetchReject" =>
       /\ page'.error # NoError
       /\ page'.error.error \notin {Null, ""}
       /\ page'.data = InitialPage(page.route).data
       /\ ~page'.loading
       /\ ~page'.crashed
       /\ status' = "mounted"]_vars

\* a fetch of the time-series page has failed with an error that carries
\* no message, while another fetch of the page was in flight
C23_Witness ==
  /\ lastOp[1] = "fetchReject"
  /\ page.route = "timeSeries"
  /\ page.error = [error |-> "Failed to load time series data"]
  /\ page.data = <<>>
  /\ inflight # <<>>

\* C24: on the overview page a failure of a fetch of the secondary group
\* sets no page error and leaves the primary data as stored, and a
\* failure of a fetch of the primary group sets the error, clears the
\* primary data and starts no secondary fetch; the secondary fetches start
\* when the primary group has resolved and its data is stored
C24_GroupsFailApart ==
  [][/\ (lastOp'[1] = "groupReject" /\ inflight[lastOp'[2]].group = "secondary")
          => /\ page'.error = page.error
             /\ page'.data = page.data
             /\ ~page'.detailsLoading
             /\ ~page'.crashed
     /\ (lastOp'[1] = "groupReject" /\ inflight[lastOp'[2]].group = "primary")
          => /\ page'.error # NoError
             /\ page'.data = JNull
             /\ issued'.requests = <<>>
             /\ inflight' = Without(inflight, lastOp'[2])
             /\ page'.buttonClicks = page.buttonClicks
     /\ (lastOp'[1] = "groupResolve" /\ issued'.requests # <<>>)
          => /\ inflight[lastOp'[2]].group = "primary"
             /\ inflight'[lastOp'[2]].group = "secondary"
             /\ page'.data # JNull
             /\ {issued'.requests[k].url : k \in 1..Len(issued'.requests)}
                  = SecondaryGroup]_vars

\* a secondary fetch has failed and the page shows the primary data with
\* no error, while a later load awaits its primary group
C24_Witness ==
  /\ lastOp[1] = "groupReject"
  /\ page.route = "overview"
  /\ page.data # JNull
  /\ page.error = NoError
  /\ ~page.detailsLoading
  /\ page.buttonClicks = <<>>
  /\ Len(inflight) = 1
  /\ inflight[1].group = "primary"

\* C25: a fetch in flight is neither cancelled nor fenced.  No step takes
\* a request out of flight but its own answer, and every response is
\* stored as the data of the page, whether or not a newer request is in
\* flight and whatever the filters are by then; so with two fetches in
\* flight the data after both resolve is the response that resolved
\* last, and the page can show data of filters no longer selected
C25_LastResponseWins ==
  [][/\ lastOp'[1] \notin {"fetchResolve", "fetchReject"}
          => SubSeq(inflight', 1, Len(inflight)) = inflight
     /\ lastOp'[1] \in {"fetchResolve", "fetchReject"}
          => inflight' = Without(inflight, lastOp'[2])
     /\ lastOp'[1] = "fetchResolve"
          => /\ page'.data \in {OnResponse(page, r).data :
                                  r \in ResponsesTo(inflight[lastOp'[2]])}
             /\ page'.error = page.error]_vars

\* the time-series page shows the series from "a" while no from date is
\* selected: the request for it was issued first and resolved last, after
\* the answer to the request for the filters now selected
C25_Witness ==
  /\ lastOp = <<"fetchResolve", 1>>
  /\ page.route = "timeSeries"
  /\ inflight = <<>>
  /\ filters.from = ""
  /\ Truthy(filters.projectKey)
  /\ page.error = NoError
  /\ ~page.loading
  /\ page.data # <<>>
  /\ page.data[1].time = "a"

\* list b is list a with the elements at positions i and j exchanged
Exchanged(a, b, i, j) ==
  /\ Len(b) = Len(a)
  /\ b[i] = a[j] /\ b[j] = a[i]
  /\ \A k \in (1..Len(a)) \ {i, j} : b[k] = a[k]

\* lists a and b hold the same elements as often
SameMultiset(a, b) ==
  \A x \in {a[k] : k \in 1..Len(a)} \cup {b[k] : k \in 1..Len(b)} :
    Cardinality({k \in 1..Len(a) : a[k] = x})
      = Cardinality({k \in 1..Len(b) : b[k] = x})

\* C26: moveUp on the first step and moveDown on the last step leave the
\* step list unchanged; on any other step moveUp exchanges it with the
\* step before it and moveDown with the step after it, so every reorder
\* keeps the length and the multiset of the steps, and moveDown on a step
\* followed by moveUp on the position after it restores the list.  (The
\* positions of the model count from 1, those of the source from 0.)
C26_ReorderSwapsNeighbours ==
  /\ [][/\ lastOp'[1] = "handleMoveUp"
             => /\ IF lastOp'[2] = 1 THEN page'.steps = page.steps
                   ELSE Exchanged(page.steps, page'.steps,
                                  lastOp'[2] - 1, lastOp'[2])
                /\ Len(page'.steps) = Len(page.steps)
                /\ SameMultiset(page.steps, page'.steps)
        /\ lastOp'[1] = "handleMoveDown"
             => /\ IF lastOp'[2] = Len(page.steps)
                   THEN page'.steps = page.steps
                   ELSE Exchanged(page.steps, page'.steps,
                                  lastOp'[2], lastOp'[2] + 1)
                /\ Len(page'.steps) = Len(page.steps)
                /\ SameMultiset(page.steps, page'.steps)]_vars
  /\ [](page.route = "funnel" =>
          \A i \in 1..(Len(page.steps) - 1) :
            LET down == Spread(page, handleMoveDown(page, i))
                back == Spread(down, handleMoveUp(down, i + 1))
            IN  /\ down.steps # page.steps \/ page.steps[i] = page.steps[i + 1]
                /\ back.steps = page.steps)

\* the second of the default steps has been moved down
C26_Witness ==
  /\ lastOp = <<"handleMoveDown", 2>>
  /\ page.steps
       = <<"app_open", "login_success", "screen_view", "purchase_success">>

\* a step list of at least 2 elements, none blank after trimming, pairwise
\* distinct
StepsValid(steps) ==
  /\ Len(steps) >= 2
  /\ \A i \in 1..Len(steps) : trim(steps[i]) # ""
  /\ \A i, j \in 1..Len(steps) : i # j => steps[i] # steps[j]

\* presets a foreign writer may have stored: a blank step, a repeated step
ForeignPresets ==
  <<ForeignPreset("X", <<"login", " ">>),
    ForeignPreset("Y", <<"login", "login">>)>>

\* C27: from the default step list and an empty preset store, after any
\* sequence of addStep, removeStep, moveUp, moveDown, save, load and delete
\* of presets and project changes, the step list has at least 2 elements,
\* none blank after trimming, pairwise distinct; loading a preset that
\* something else stored checks its length only, and gives the page a list
\* with a blank or a repeated step
C27_StepListStaysValid ==
  /\ StepsValid(page.steps)
  /\ \A i \in 1..Len(ForeignPresets) :
       LET w == handleLoadPreset([page EXCEPT !.presets =
                                   JArr(ForeignPresets)], i)
       IN  /\ w # EmptyObject
           /\ ~StepsValid(w.steps)

\* a preset saved after edits has been loaded back over other steps: the
\* page has two steps, the last default step first
C27_Witness ==
  /\ lastOp[1] = "handleLoadPreset"
  /\ Len(page.steps) = 2
  /\ page.steps[1] = "purchase_success"
  /\ page.stepsRef # 0
  /\ Len(StoredPresets(presetStore, "p1")) = 1

\* C28: in every state of the provider, autoRefreshInterval is 30 or 60,
\* the states that follow a mount from a persisted record included
C28_IntervalInRange ==
  filters.autoRefreshInterval \in RefreshInterval

\* C29: on the funnel page loading is true whenever a funnel request is
\* still to be answered: with two overlapping loads, the answer to one
\* does not end loading while the other is pending
C29_LoadingWhilePending ==
  (page.route = "funnel" /\ inflight # <<>>) => page.loading

\* the operations that write none of autoRefreshEnabled,
\* autoRefreshInterval and projectKey
FilterEdits ==
  {"setFrom", "setTo", "setEventName", "setUserId", "setAnonymousId",
   "triggerRefresh", "intervalTick"}

\* the call op is a setter of a field the timer depends on, with the value
\* the field has in f
SameValueCall(op, f) ==
  \/ op[1] = "setAutoRefreshEnabled" /\ op[2] = f.autoRefreshEnabled
  \/ op[1] = "setAutoRefreshInterval" /\ op[2] = f.autoRefreshInterval
  \/ op[1] = "setProjectKey" /\ op[2] = f.projectKey

\* C30: while a timer is armed, setFrom, setTo, setEventName, setUserId,
\* setAnonymousId, triggerRefresh and a tick of the timer leave the timer
\* as it is (not cancelled, not replaced), and so does a call of
\* setAutoRefreshEnabled, setAutoRefreshInterval or setProjectKey with the
\* value the field already has (a step that moves the clock is no call)
C30_EditsKeepTimer ==
  [][(/\ status = "mounted"
      /\ timers # {}
      /\ now' = now
      /\ lastOp'[1] \in FilterEdits \/ SameValueCall(lastOp', filters))
       => /\ timers' = timers
          /\ cleanupId' = cleanupId
          /\ cleared' = {}]_vars

\* the from date has just been edited while a timer ran: the timer is
\* still live and nothing was cancelled
C30_Witness ==
  /\ status = "mounted"
  /\ lastOp = <<"setFrom", "a">>
  /\ filters.from = "a"
  /\ timers # {}
  /\ cleanupId # NoTimer
  /\ cleared = {}

====
